---- MODULE Spec2Model ----
(***************************************************************************)
(* Model of the animation orchestration core of talking-cat-ai            *)
(* (src/script.js): AnimationStateManager, SmoothMotionController,         *)
(* ActionScheduler and the part of ContextDrivenAnimationController that   *)
(* submits descriptors to the scheduler.                                   *)
(*                                                                         *)
(* JavaScript runs one job at a time.  A step of the model is one job: a   *)
(* call from outside, a timer callback, an animation-frame callback, or a  *)
(* promise continuation (microtask).  Microtasks run before any other job. *)
(* Time advances in units of TimeUnit milliseconds; a frame is one unit.   *)
(***************************************************************************)
EXTENDS Integers, Sequences, FiniteSets, TLC

\* ---------------------------------------------------------------- bounds
\* executions (executeAction calls) a behaviour may create
MaxExec == 5
\* calls of scheduleAction in a behaviour
MaxSchedule == 3
\* calls of cancelAll in a behaviour
MaxCancel == 1
\* contextual handlers fired in a behaviour
MaxContext == 1
\* milliseconds per unit of model time (and per animation frame)
TimeUnit == 500
\* clock seconds of the move of performPlayfulPounce; the source passes 800
\* to a clock in seconds, which is cut here
PounceMoveSeconds == 1

\* ------------------------------------------------------ program constants
LocoClipFadeMs == 300
RotateToTargetMs == 500
FaceCameraDelayMs == 200
FaceCameraRotateMs == 1000
IdleRestoreFadeMs == 800
OneshotFadeMs == 100
DefaultOneshotMs == 1000
DefaultMoveSeconds == 2500
DefaultFadeMs == 500
ContextCleanupDelayMs == 500
ContextIdleFadeMs == 1000
ContextRotateMs == 1200
MinIdleIntervalMs == 10000
IdleIntervalSpanMs == 10000
SleepTransitionMs == 60000
PlayfulMs == 3000
CuriousMs == 4000
WakeWindowMs == 5000
OrientDelayMs == 500
OrientRotateMs == 1000
SleepFadeMs == 1000
SleepSpeed == 30
WaypointPauseMs == 500
JumpPauseMs == 300
JumpRotateMs == 300
\* 1.5 on the scale of score
ScoreThreshold == 1500
MinIntervalPeriodMs == 3000
IntervalPeriodSpanMs == 4000
EvaluateDelayMs == 1500
UiFadeMs == 300
UiSpeakDelayMs == 800

\* a duration in milliseconds as a number of time units, rounded up
Units(ms) == (ms + TimeUnit - 1) \div TimeUnit

\* the descriptor has no duration field (undefined)
NoDuration == -1

\* the clip table loaded at startup
Animations == {"idle", "walk", "run", "jump", "paw_attack", "bite"}

\* the mixer's action of clip c as loadAnimations leaves it: not playing, its
\* loop mode from the file table.  mode is "off" (disabled or not playing),
\* "on" (running) or "held" (a play-once clip clamped on its last frame);
\* fadeLeft is the time left of a fade-out (0: none).
Loaded(c) ==
    [loop |-> c \in {"idle", "walk", "run"}, time |-> 0, mode |-> "off",
     fadeLeft |-> 0]

\* ------------------------------------------------------------ descriptors
\* The action descriptors the model submits, by id.  hasActions = FALSE is a
\* composite whose actions list is missing, on which executeComposite throws.
Desc(type, animation, target, duration, parallel, hasActions, actions) ==
    [type |-> type, animation |-> animation, target |-> target,
     duration |-> duration, parallel |-> parallel,
     hasActions |-> hasActions, actions |-> actions]

Descriptors ==
    <<  Desc("oneshot", "jump", FALSE, 500, FALSE, FALSE, <<>>),        \* 1
        Desc("oneshot", "meow", FALSE, NoDuration, FALSE, FALSE, <<>>), \* 2
        Desc("locomotion", "paw_attack", FALSE, 2000, FALSE, FALSE, <<>>), \* 3
        Desc("locomotion", "run", TRUE, 1, FALSE, FALSE, <<>>),         \* 4
        Desc("composite", "", FALSE, NoDuration, FALSE, FALSE, <<>>),   \* 5
        Desc("composite", "", FALSE, NoDuration, FALSE, TRUE, <<1, 5, 4>>), \* 6
        Desc("composite", "", FALSE, NoDuration, TRUE, TRUE, <<1, 3>>), \* 7
        Desc("composite", "", FALSE, NoDuration, FALSE, TRUE, <<9, 3>>), \* 8
        Desc("composite", "", FALSE, NoDuration, TRUE, TRUE, <<3, 1>>), \* 9
        Desc("oneshot", "jump", FALSE, 0, FALSE, FALSE, <<>>),          \* 10
        Desc("oneshot", "jump", FALSE, 800, FALSE, FALSE, <<>>),        \* 11
        Desc("locomotion", "", TRUE, 1, FALSE, FALSE, <<>>),            \* 12
        Desc("composite", "", FALSE, NoDuration, FALSE, TRUE, <<11, 12>>), \* 13
        Desc("oneshot", "jump", FALSE, 1000, FALSE, FALSE, <<>>)        \* 14
    >>

DescIds == 1..Len(Descriptors)

\* A behaviour's callers draw the descriptors they schedule from one of these
\* sets
Menus == {{2, 10}, {4}, {3, 5, 6}, {1, 7}, {3, 8}}

\* executions a descriptor creates when it runs: itself and its sub-actions
RECURSIVE SumCost(_, _)
Cost(d) == 1 + (IF Descriptors[d].hasActions
                THEN SumCost(Descriptors[d].actions, 1) ELSE 0)
SumCost(ds, i) == IF i > Len(ds) THEN 0
                  ELSE (1 + (IF Descriptors[ds[i]].hasActions
                             THEN SumCost(Descriptors[ds[i]].actions, 1) ELSE 0))
                       + SumCost(ds, i + 1)

\* ------------------------------------------------------------------ state
VARIABLES
    isExecuting,    \* ActionScheduler.isExecuting
    actionQueue,    \* ActionScheduler.actionQueue: <<[desc, arrival]>>
    execs,          \* the executeAction calls made so far, in call order;
                    \* the record of a finished one is blanked as time passes
    microtasks,     \* pending promise continuations, FIFO
    timers,         \* pending setTimeout callbacks: <<[kind, exec, left]>>
    rafDue,         \* animation-frame callbacks of the current frame
    rafPending,     \* animation-frame callbacks requested for the next frame
    isMoving,       \* SmoothMotionController.isMoving
    isRotating,     \* SmoothMotionController.isRotating
    moveTween,      \* the position tween in flight
    rotTween,       \* the rotation tween in flight
    position,       \* catModel.position
    activeAction,   \* AnimationStateManager.activeAction (clip name or "none")
    isTransitioning,\* AnimationStateManager.isTransitioning
    lastClip,       \* the last clip request of the job that ran last
    isPerformingContextualAction,
    lastOp,         \* the job that ran last
    dropped,        \* arrival numbers of the descriptors cancelAll removed
    cancelled,      \* the executions in flight when cancelAll ran, each with
                    \* the number of stages it had begun by then
    menu,           \* the descriptors the callers of this behaviour schedule
    nSchedule, nCancel, nContext, budget,
    playback,       \* the mixer's state of each clip action
    listeners,      \* the 'finished' listeners registered on the mixer
    mixerDue,       \* the render loop has yet to call mixer.update this frame
    plays,          \* the accepted play calls and the stop calls so far, in
                    \* order: <<[clip, loop]>>
    autoReturns,    \* the plays whose grace-delay timer has fired
    fading,         \* the fade of the last accepted play, its age, and the
                    \* calls from outside made since that did not start a fade
    nPlay,          \* calls made on the AnimationStateManager from outside
    requests,       \* the moveToPosition and rotateTo calls accepted so far:
                    \* <<[kind, arg, duration, age, doneAt]>>
    nMotion,        \* calls made on the SmoothMotionController from outside
    currentState,   \* BehaviorStateMachine.currentState
    previousState,  \* BehaviorStateMachine.previousState
    elapsed,        \* time units since BehaviorStateMachine.stateStartTime
    mood,           \* EnhancedTalkingCat.mood
    interactionAge, \* time units since lastInteractionTime was assigned
    isTalking,      \* EnhancedTalkingCat.isTalking
    idleBehaviorInterval, \* EnhancedTalkingCat.idleBehaviorInterval
    stateAge,       \* time units since currentState last changed
    speed,          \* the time scale of the active clip, in percent
    pose,           \* the tilt animateModelRotation moves the model to
    text,           \* the words of the text the selector evaluates
    jitter,         \* the jitter factor drawn for each mapping, in percent
    firingDraw,     \* the firing draw, in percent
    nEvent,         \* triggers of the speech/text pipeline so far
    nIdle,          \* idle behaviours picked so far
    updated,        \* the render loop has called update in this frame
    layer,          \* EnhancedTalkingCat.proceduralLayer, with the bones and
                    \* the model scale it writes
    nFrame,         \* frames the render loop has drawn with the layer
    nChange         \* state changes requested while the layer runs

vars == <<isExecuting, actionQueue, execs, microtasks, timers, rafDue,
          rafPending, isMoving, isRotating, moveTween, rotTween, position,
          activeAction, isTransitioning, lastClip,
          isPerformingContextualAction, lastOp, dropped, cancelled, menu,
          nSchedule, nCancel, nContext, budget,
          playback, listeners, mixerDue, plays, autoReturns, fading, nPlay,
          requests, nMotion,
          currentState, previousState, elapsed, mood, interactionAge,
          isTalking, idleBehaviorInterval, stateAge, speed, pose,
          text, jitter, firingDraw, nEvent, nIdle, updated,
          layer, nFrame, nChange>>

\* the procedural layer and the counters of its steps
layerVars == <<layer, nFrame, nChange>>

\* what a draw of the selector is made of, and the pipeline's counter
inputVars == <<text, jitter, firingDraw, nEvent, nIdle, updated>>

\* the variables only the steps of the motion controller on its own and the
\* steps of the procedural layer change
motionVars == <<requests, nMotion, layerVars>>

\* the variables only the mixer steps change
mixerVars ==
    <<playback, listeners, mixerDue, plays, autoReturns, fading, nPlay>>

\* the program state as one record, so that the methods below are functions
\* from state to state
NoClip == [name |-> "none", result |-> "none"]

St == [isExecuting |-> isExecuting, actionQueue |-> actionQueue,
       execs |-> execs, microtasks |-> microtasks, timers |-> timers,
       rafDue |-> rafDue, rafPending |-> rafPending,
       isMoving |-> isMoving, isRotating |-> isRotating,
       moveTween |-> moveTween, rotTween |-> rotTween, position |-> position,
       activeAction |-> activeAction, isTransitioning |-> isTransitioning,
       lastClip |-> NoClip,
       isPerformingContextualAction |-> isPerformingContextualAction,
       currentState |-> currentState, previousState |-> previousState,
       elapsed |-> elapsed, mood |-> mood,
       interactionAge |-> interactionAge, isTalking |-> isTalking,
       idleBehaviorInterval |-> idleBehaviorInterval, stateAge |-> stateAge,
       speed |-> speed, pose |-> pose]

Becomes(s) ==
    /\ isExecuting' = s.isExecuting
    /\ actionQueue' = s.actionQueue
    /\ execs' = s.execs
    /\ microtasks' = s.microtasks
    /\ timers' = s.timers
    /\ rafDue' = s.rafDue
    /\ rafPending' = s.rafPending
    /\ isMoving' = s.isMoving
    /\ isRotating' = s.isRotating
    /\ moveTween' = s.moveTween
    /\ rotTween' = s.rotTween
    /\ position' = s.position
    /\ activeAction' = s.activeAction
    /\ isTransitioning' = s.isTransitioning
    /\ lastClip' = s.lastClip
    /\ isPerformingContextualAction' = s.isPerformingContextualAction
    /\ currentState' = s.currentState
    /\ previousState' = s.previousState
    /\ elapsed' = s.elapsed
    /\ mood' = s.mood
    /\ interactionAge' = s.interactionAge
    /\ isTalking' = s.isTalking
    /\ idleBehaviorInterval' = s.idleBehaviorInterval
    /\ stateAge' = s.stateAge
    /\ speed' = s.speed
    /\ pose' = s.pose

NoCallback == [kind |-> "none", exec |-> 0]
NoTween == [cb |-> NoCallback, elapsed |-> 0, duration |-> 0, target |-> "none"]

Timer(kind, e, ms) == [kind |-> kind, exec |-> e, left |-> Units(ms)]
Microtask(kind, e, hops, err) ==
    [kind |-> kind, exec |-> e, hops |-> hops, err |-> err]

\* the positions at which a contextual handler waits, besides the end of its
\* only execution: after a waypoint's execution, a pause, the rotation before
\* a jump, or a jump's execution
HandlerWaits ==
    {"walk1", "walk1p", "walk2", "walk2p", "rot1of1", "rot1of2", "rot2of2",
     "jump1of1", "jump1of2", "jump1of2p", "jump2of2"}

\* ------------------------------------------------- AnimationStateManager
\* playAction without the guard on isTransitioning
playActionReentrant(s, name, fadeMs, loop) ==
    IF name \notin Animations
    THEN [s EXCEPT !.lastClip = [name |-> name, result |-> "unknown"]]
    ELSE IF s.activeAction = name
    THEN [s EXCEPT !.lastClip = [name |-> name, result |-> "same"]]
    ELSE [s EXCEPT !.isTransitioning = TRUE,
                   !.activeAction = name,
                   !.timers = Append(@, Timer("transition", 0, fadeMs)),
                   !.lastClip = [name |-> name, result |-> "accepted"]]

\* playAction without the lookup in the clip table
playActionAnyName(s, name, fadeMs, loop) ==
    IF s.isTransitioning
    THEN [s EXCEPT !.lastClip = [name |-> name, result |-> "rejected"]]
    ELSE IF s.activeAction = name
    THEN [s EXCEPT !.lastClip = [name |-> name, result |-> "same"]]
    ELSE [s EXCEPT !.isTransitioning = TRUE,
                   !.activeAction = name,
                   !.timers = Append(@, Timer("transition", 0, fadeMs)),
                   !.lastClip = [name |-> name, result |-> "accepted"]]

\* playAction that restarts the clip that is already active
playActionRestart(s, name, fadeMs, loop) ==
    IF s.isTransitioning
    THEN [s EXCEPT !.lastClip = [name |-> name, result |-> "rejected"]]
    ELSE IF name \notin Animations
    THEN [s EXCEPT !.lastClip = [name |-> name, result |-> "unknown"]]
    ELSE [s EXCEPT !.isTransitioning = TRUE,
                   !.activeAction = name,
                   !.timers = Append(@, Timer("transition", 0, fadeMs)),
                   !.lastClip = [name |-> name, result |-> "accepted"]]

\* playAction(name, fadeDuration, loop); lastClip tells what it returns:
\* null ("rejected", "unknown"), the current action ("same") or the next
\* action ("accepted")
playAction(s, name, fadeMs, loop) ==
    IF s.isTransitioning
    THEN [s EXCEPT !.lastClip = [name |-> name, result |-> "rejected"]]
    ELSE IF name \notin Animations
    THEN [s EXCEPT !.lastClip = [name |-> name, result |-> "unknown"]]
    ELSE IF s.activeAction = name
    THEN [s EXCEPT !.lastClip = [name |-> name, result |-> "same"]]
    ELSE [s EXCEPT !.isTransitioning = TRUE,
                   !.activeAction = name,
                   !.timers = Append(@, Timer("transition", 0, fadeMs)),
                   !.lastClip = [name |-> name, result |-> "accepted"]]

\* fadeToIdle(fadeDuration)
fadeToIdle(s, fadeMs) ==
    IF "idle" \in Animations
    THEN playAction(s, "idle", fadeMs, TRUE)
    ELSE [s EXCEPT !.lastClip = [name |-> "idle", result |-> "unknown"]]

\* ------------------------------------------------ SmoothMotionController
\* rotateTo(targetAngleY, duration, onComplete); the first animate() call runs
\* inside it, finds no time elapsed and requests the next frame
rotateTo(s, durationMs, cb) ==
    IF s.isRotating THEN s
    ELSE [s EXCEPT !.isRotating = TRUE,
                   !.rotTween = [cb |-> cb, elapsed |-> 0,
                                 duration |-> Units(durationMs),
                                 target |-> "none"],
                   !.rafPending = Append(@, "rotate")]

\* moveToPosition without the guard on isMoving
moveToPositionUnguarded(s, target, durationSeconds, cb) ==
    [s EXCEPT !.isMoving = TRUE,
              !.moveTween = [cb |-> cb, elapsed |-> 0,
                             duration |-> Units(durationSeconds * 1000),
                             target |-> target],
              !.rafPending = Append(@, "move")]

\* moveToPosition(targetPosition, duration, onComplete); the duration is
\* compared with THREE.Clock deltas, which are seconds
moveToPosition(s, target, durationSeconds, cb) ==
    IF s.isMoving THEN s
    ELSE [s EXCEPT !.isMoving = TRUE,
                   !.moveTween = [cb |-> cb, elapsed |-> 0,
                                  duration |-> Units(durationSeconds * 1000),
                                  target |-> target],
                   !.rafPending = Append(@, "move")]

\* -------------------------------------------------------- ActionScheduler
\* One record per executeAction call.  parent is the execution of the
\* composite that made the call (0: none); via tells who made it; arrival is
\* the number of the scheduleAction call that brought the descriptor (0:
\* none); stages lists the stages of a locomotion in the order they happened;
\* age is the time a oneshot has waited for its timer.
NewExec(d, parent, via, arrival) ==
    [desc |-> d, parent |-> parent, via |-> via, arrival |-> arrival,
     pc |-> "start", idx |-> 0, age |-> 0, failed |-> FALSE,
     clip |-> "none", stages |-> <<>>]

\* the blank record of a finished execution
Retired == [NewExec(0, 0, "none", 0) EXCEPT !.pc = "done"]

SetPc(s, e, pc) == [s EXCEPT !.execs[e].pc = pc]
Stage(s, e, name) == [s EXCEPT !.execs[e].stages = Append(@, name)]
Enqueue(s, m) == [s EXCEPT !.microtasks = Append(@, m)]

\* action.duration || dflt
OrDefault(duration, dflt) ==
    IF duration = NoDuration \/ duration = 0 THEN dflt ELSE duration

RECURSIVE executeAction(_, _, _, _, _)
RECURSIVE launchAll(_, _, _)

\* executeOneshot(action)
executeOneshot(s, e) ==
    LET d == Descriptors[s.execs[e].desc]
        s1 == playAction(s, d.animation, OneshotFadeMs, FALSE)
    IN  [s1 EXCEPT !.execs[e].clip = s1.lastClip.result,
                   !.execs[e].pc = "timer",
                   !.timers = Append(@, Timer("oneshot", e,
                                  OrDefault(d.duration, DefaultOneshotMs)))]

\* executeLocomotion with the rotation and the move started together instead
\* of the move being started by the rotation's completion callback
executeLocomotionNoWait(s, e) ==
    LET d == Descriptors[s.execs[e].desc]
        s1 == Stage(playAction(s, d.animation, LocoClipFadeMs, TRUE), e, "clip")
        s2 == rotateTo(s1, RotateToTargetMs, NoCallback)
        s3 == moveToPosition(s2, "spot", OrDefault(d.duration, DefaultMoveSeconds),
                             [kind |-> "arrived", exec |-> e])
    IN  IF d.target
        THEN Stage(Stage(SetPc(s3, e, "move"), e, "rotate"), e, "move")
        ELSE Enqueue(SetPc(s1, e, "settling"), Microtask("settle", e, 0, FALSE))

\* executeLocomotion without the test of action.targetPosition
executeLocomotionAlwaysRotate(s, e) ==
    LET d == Descriptors[s.execs[e].desc]
        s1 == Stage(playAction(s, d.animation, LocoClipFadeMs, TRUE), e, "clip")
        s2 == rotateTo(s1, RotateToTargetMs, [kind |-> "rotated", exec |-> e])
    IN  IF s1.isRotating
        THEN SetPc(s2, e, "orphan")
        ELSE Stage(SetPc(s2, e, "rotate"), e, "rotate")

\* executeLocomotion(action), up to the return of its promise
executeLocomotion(s, e) ==
    LET d == Descriptors[s.execs[e].desc]
        s1 == Stage(playAction(s, d.animation, LocoClipFadeMs, TRUE), e, "clip")
        s2 == [s1 EXCEPT !.execs[e].clip = s1.lastClip.result]
        s3 == rotateTo(s2, RotateToTargetMs, [kind |-> "rotated", exec |-> e])
    IN  IF d.target
        THEN IF s2.isRotating
             THEN SetPc(s3, e, "orphan")
             ELSE Stage(SetPc(s3, e, "rotate"), e, "rotate")
        ELSE Enqueue(SetPc(s2, e, "settling"), Microtask("settle", e, 0, FALSE))

\* executeComposite(action): one pass of the sequential loop, starting the
\* sub-action after the one that just completed, or returning
compositeNext(s, e) ==
    LET d == Descriptors[s.execs[e].desc]
        i == s.execs[e].idx + 1
    IN  IF i > Len(d.actions)
        THEN Enqueue(SetPc(s, e, "settling"), Microtask("settle", e, 0, FALSE))
        ELSE executeAction([s EXCEPT !.execs[e].idx = i, !.execs[e].pc = "seq"],
                           d.actions[i], e, "sub", 0)

\* executeComposite(action): the parallel loop
launchAll(s, e, i) ==
    LET d == Descriptors[s.execs[e].desc]
    IN  IF i > Len(d.actions) THEN s
        ELSE launchAll(executeAction(s, d.actions[i], e, "sub", 0), e, i + 1)

\* executeComposite without the await in its sequential branch
executeCompositeNoAwait(s, e) ==
    LET d == Descriptors[s.execs[e].desc]
    IN  IF ~d.hasActions
        THEN Enqueue(SetPc(s, e, "settling"), Microtask("settle", e, 0, TRUE))
        ELSE launchAll(SetPc(s, e, "all"), e, 1)

\* executeComposite(action), up to its first await
executeComposite(s, e) ==
    LET d == Descriptors[s.execs[e].desc]
    IN  IF ~d.hasActions
        THEN Enqueue(SetPc(s, e, "settling"), Microtask("settle", e, 0, TRUE))
        ELSE IF d.parallel
        THEN LET s1 == launchAll(SetPc(s, e, "all"), e, 1)
             IN  IF Len(d.actions) = 0
                 THEN Enqueue(s1, Microtask("settle", e, 1, FALSE))
                 ELSE s1
        ELSE compositeNext(s, e)

\* executeAction(action), up to its await
executeAction(s, d, parent, via, arrival) ==
    LET e == Len(s.execs) + 1
        s1 == [s EXCEPT !.isExecuting = TRUE,
                        !.execs = Append(@, NewExec(d, parent, via, arrival))]
        type == Descriptors[d].type
    IN  CASE type = "locomotion" -> executeLocomotion(s1, e)
          [] type = "composite" -> executeComposite(s1, e)
          [] type = "oneshot" -> executeOneshot(s1, e)

\* scheduleAction(actionDescriptor); n numbers the call
scheduleAction(s, d, n) ==
    IF s.isExecuting
    THEN [s EXCEPT !.actionQueue = Append(@, [desc |-> d, arrival |-> n])]
    ELSE executeAction(s, d, 0, "direct", n)

\* processQueue taking the newest queued descriptor (pop instead of shift)
processQueueLifo(s) ==
    IF Len(s.actionQueue) > 0
    THEN executeAction([s EXCEPT !.actionQueue =
                                    SubSeq(@, 1, Len(@) - 1)],
                       s.actionQueue[Len(s.actionQueue)].desc, 0, "queue",
                       s.actionQueue[Len(s.actionQueue)].arrival)
    ELSE s

\* processQueue that starts the head of the queue and leaves it queued
processQueuePeek(s) ==
    IF s.actionQueue # <<>>
    THEN executeAction(s, Head(s.actionQueue).desc, 0, "queue",
                       Head(s.actionQueue).arrival)
    ELSE s

\* processQueue()
processQueue(s) ==
    IF Len(s.actionQueue) > 0
    THEN executeAction([s EXCEPT !.actionQueue = Tail(@)],
                       Head(s.actionQueue).desc, 0, "queue",
                       Head(s.actionQueue).arrival)
    ELSE s

\* cancelAll without the emptying of the queue
cancelAllKeepQueue(s) ==
    fadeToIdle([s EXCEPT !.isExecuting = FALSE], DefaultFadeMs)

\* cancelAll()
cancelAll(s) ==
    fadeToIdle([s EXCEPT !.actionQueue = <<>>, !.isExecuting = FALSE],
               DefaultFadeMs)

\* executeAction with the flag cleared and the queue processed after the
\* switch instead of in a finally block: an error skips both
settleNoFinally(s, e, err) ==
    LET x == s.execs[e]
        s1 == [s EXCEPT !.execs[e].pc = "done", !.execs[e].failed = err]
        s2 == IF err THEN s1
              ELSE processQueue([s1 EXCEPT !.isExecuting = FALSE])
    IN  IF x.parent # 0
        THEN Enqueue(s2, Microtask("resume", x.parent, 0, err))
        ELSE s2

\* executeAction whose finally block clears the flag and leaves the queue
\* alone
settleNoDrain(s, e, err) ==
    LET x == s.execs[e]
        s2 == [s EXCEPT !.execs[e].pc = "done", !.execs[e].failed = err,
                        !.isExecuting = FALSE]
    IN  IF x.parent # 0
        THEN Enqueue(s2, Microtask("resume", x.parent, 0, FALSE))
        ELSE IF x.via = "context"
        THEN Enqueue(s2, Microtask("handler", 0, 1, FALSE))
        ELSE IF x.via \in HandlerWaits
        THEN Enqueue(s2, Microtask(x.via, 0, 1, FALSE))
        ELSE s2

\* executeAction(action) after its await: catch, finally, and the resolution
\* of its promise, which wakes the composite or the contextual handler that
\* awaits it
settle(s, e, err) ==
    LET x == s.execs[e]
        s1 == [s EXCEPT !.execs[e].pc = "done", !.execs[e].failed = err,
                        !.isExecuting = FALSE]
        s2 == processQueue(s1)
    IN  IF x.parent # 0
        THEN Enqueue(s2, Microtask("resume", x.parent, 0, FALSE))
        ELSE IF x.via = "context"
        THEN Enqueue(s2, Microtask("handler", 0, 1, FALSE))
        ELSE IF x.via \in HandlerWaits
        THEN Enqueue(s2, Microtask(x.via, 0, 1, FALSE))
        ELSE s2

\* the sub-actions of composite execution e
Children(s, e) == {c \in 1..Len(s.execs) : s.execs[c].parent = e}

\* executeComposite with Promise.race in place of Promise.all
resumeAny(s, e) ==
    LET d == Descriptors[s.execs[e].desc]
    IN  IF d.parallel
        THEN IF s.execs[e].pc = "all"
             THEN Enqueue(SetPc(s, e, "settling"), Microtask("settle", e, 1, FALSE))
             ELSE s
        ELSE compositeNext(s, e)

\* executeComposite(action) after a sub-action's promise resolved: the next
\* pass of the sequential loop, or Promise.all counting one more sub-action
resume(s, e) ==
    LET d == Descriptors[s.execs[e].desc]
    IN  IF d.parallel
        THEN IF \A c \in Children(s, e) : s.execs[c].pc = "done"
             THEN Enqueue(SetPc(s, e, "settling"), Microtask("settle", e, 1, FALSE))
             ELSE s
        ELSE compositeNext(s, e)

\* the callbacks executeLocomotion hands to the motion controller
RunCallback(s, cb) ==
    LET e == cb.exec IN
    CASE cb.kind = "rotated" ->
            LET d == Descriptors[s.execs[e].desc]
                s1 == Stage(s, e, "rotated")
                s2 == moveToPosition(s1, "spot",
                          OrDefault(d.duration, DefaultMoveSeconds),
                          [kind |-> "arrived", exec |-> e])
            IN  IF s1.isMoving
                THEN SetPc(s2, e, "orphan")
                ELSE Stage(SetPc(s2, e, "move"), e, "move")
      [] cb.kind = "arrived" ->
            LET s1 == Stage(fadeToIdle(Stage(s, e, "moved"), IdleRestoreFadeMs),
                            e, "idle")
            IN  [s1 EXCEPT !.execs[e].pc = "delay",
                           !.timers = Append(@, Timer("face", e, FaceCameraDelayMs))]
      [] cb.kind = "faced" ->
            Enqueue(Stage(SetPc(s, e, "settling"), e, "faced"),
                    Microtask("settle", e, 1, FALSE))
      [] cb.kind \in HandlerWaits ->
            Enqueue(s, Microtask(cb.kind, 0, 0, FALSE))
      [] OTHER -> s

\* the setTimeout callback of executeLocomotion: face the camera
faceCamera(s, e) ==
    LET s1 == rotateTo(s, FaceCameraRotateMs, [kind |-> "faced", exec |-> e])
    IN  IF s.isRotating
        THEN SetPc(s1, e, "orphan")
        ELSE Stage(SetPc(s1, e, "face"), e, "face")

\* QuaternionRotationController.rotateTo: animate(), one frame
animateRotate(s) ==
    LET el == s.rotTween.elapsed + 1
    IN  IF el < s.rotTween.duration
        THEN [s EXCEPT !.rotTween.elapsed = el,
                       !.rafPending = Append(@, "rotate")]
        ELSE RunCallback([s EXCEPT !.isRotating = FALSE, !.rotTween = NoTween],
                         s.rotTween.cb)

\* animate() of moveToPosition that leaves isMoving set at the end
animateMoveStaysBusy(s) ==
    LET el == s.moveTween.elapsed + 1
    IN  IF el < s.moveTween.duration
        THEN [s EXCEPT !.moveTween.elapsed = el,
                       !.position = [from |-> s.position.from,
                                     to |-> s.moveTween.target, t |-> el],
                       !.rafPending = Append(@, "move")]
        ELSE RunCallback([s EXCEPT !.moveTween = NoTween,
                                   !.position = [from |-> s.moveTween.target,
                                                 to |-> s.moveTween.target,
                                                 t |-> 0]],
                         s.moveTween.cb)

\* SmoothMotionController.moveToPosition: animate(), one frame
animateMove(s) ==
    LET el == s.moveTween.elapsed + 1
    IN  IF el < s.moveTween.duration
        THEN [s EXCEPT !.moveTween.elapsed = el,
                       !.position = [from |-> s.position.from,
                                     to |-> s.moveTween.target, t |-> el],
                       !.rafPending = Append(@, "move")]
        ELSE RunCallback([s EXCEPT !.isMoving = FALSE, !.moveTween = NoTween,
                                   !.position = [from |-> s.moveTween.target,
                                                 to |-> s.moveTween.target,
                                                 t |-> 0]],
                         s.moveTween.cb)

\* -------------------------------------- ContextDrivenAnimationController
\* the finally block without the reset of the flag
handlerFinallyKeepsFlag(s) ==
    [s EXCEPT !.timers = Append(@, Timer("cleanup", 0, ContextCleanupDelayMs))]

\* the finally block of analyzeAndTriggerContextualAction
handlerFinally(s) ==
    [s EXCEPT !.isPerformingContextualAction = FALSE,
              !.timers = Append(@, Timer("cleanup", 0, ContextCleanupDelayMs))]

\* its setTimeout callback: return to idle and face the camera
contextCleanup(s) ==
    rotateTo(fadeToIdle(s, ContextIdleFadeMs), ContextRotateMs, NoCallback)

\* descriptors the contextual handlers build: performPlayfulContext (a
\* locomotion without target), performRunningContext (one with a target)
ContextDescs == {3, 4}

\* analyzeAndTriggerContextualAction without the single-flight guard
analyzeAndTriggerUnguarded(s, d) ==
    executeAction([s EXCEPT !.isPerformingContextualAction = TRUE],
                  d, 0, "context", 0)

\* analyzeAndTriggerContextualAction(userInput, geminiResponse) when the text
\* matches the handler that hands descriptor d to executeAction
analyzeAndTriggerContextualAction(s, d) ==
    IF s.isPerformingContextualAction THEN s
    ELSE executeAction([s EXCEPT !.isPerformingContextualAction = TRUE],
                       d, 0, "context", 0)

\* the stages of a locomotion with a target, in the order of the code
LocoStages ==
    <<"clip", "rotate", "rotated", "move", "moved", "idle", "face", "faced">>

\* how many stages (of a locomotion) or sub-actions (of a sequential
\* composite) execution record x has begun
Begun(x) ==
    Len(SelectSeq(x.stages,
                  LAMBDA n : n \in {"clip", "rotate", "move", "idle", "face"}))
    + x.idx

\* --------------------------------------------------- BehaviorStateMachine
\* What one job draws from Math.random and from the timer table: whether
\* playAnimation adds its random turn, the id and the period (in time units)
\* setInterval gives, the next idle interval, the idle behaviour picked, the
\* jumpCount of performJumpingContext, the descriptor performPlayfulContext
\* builds.
Draw(orient, id, period, interval, behavior, jumps, playful) ==
    [orient |-> orient, id |-> id, period |-> period, interval |-> interval,
     behavior |-> behavior, jumps |-> jumps, playful |-> playful]

\* the draws of a job that uses none
NoDraw ==
    Draw(FALSE, 1, Units(MinIntervalPeriodMs), MinIdleIntervalMs,
         "performHeadTilt", 1, 3)

\* Date.now() - performance.now(): the epoch time of the page load in
\* milliseconds.  The value of a real clock is about 1.7 * 10^12; it is cut
\* here to a number the checker's integers hold, larger than every duration
\* of the model.
TimeOrigin == 2000000000

\* performance.now() - this.cat.lastInteractionTime, the latter being a value
\* of Date.now()
timeSinceInteraction(s) == s.interactionAge * TimeUnit - TimeOrigin

\* AnimationStateManager.setSpeed(speed)
setSpeed(s, percent) ==
    IF s.activeAction # "none" THEN [s EXCEPT !.speed = percent] ELSE s

\* performRandomOrientation()
performRandomOrientation(s) ==
    IF ~s.isPerformingContextualAction
    THEN rotateTo(s, OrientRotateMs, NoCallback)
    ELSE s

\* playAnimation(name, fadeDuration, loop).  The timeout it sets after a
\* play-once clip calls returnToIdleAndFaceUser, which no class defines: the
\* callback throws and changes nothing, so it is left out.
playAnimation(s, name, fadeMs, loop, r) ==
    LET s1 == playAction(s, name, fadeMs, loop)
    IN  IF r.orient /\ ~s1.isPerformingContextualAction
        THEN [s1 EXCEPT !.timers = Append(@, Timer("orient", 0, OrientDelayMs))]
        ELSE s1

\* enterSleepMode()
enterSleepMode(s, r) ==
    [setSpeed(playAnimation(s, "idle", SleepFadeMs, TRUE, r), SleepSpeed)
        EXCEPT !.pose = "lying"]

\* exitSleepMode()
exitSleepMode(s) == [setSpeed(s, 100) EXCEPT !.pose = "upright"]

\* onStateEnter without the mood of the entered state
onStateEnterKeepMood(s, state, r) ==
    CASE state = "idle" -> playAction(s, "idle", DefaultFadeMs, TRUE)
      [] state = "sleep" -> enterSleepMode(s, r)
      [] OTHER -> s

\* BehaviorStateMachine.onStateEnter(state)
onStateEnter(s, state, r) ==
    CASE state = "idle" ->
            playAction([s EXCEPT !.mood = "neutral"], "idle", DefaultFadeMs, TRUE)
      [] state = "playful" -> [s EXCEPT !.mood = "happy"]
      [] state = "curious" -> [s EXCEPT !.mood = "curious"]
      [] state = "talking" -> [s EXCEPT !.mood = "engaged"]
      [] state = "sleep" -> enterSleepMode([s EXCEPT !.mood = "sleepy"], r)
      [] state = "processing" -> [s EXCEPT !.mood = "engaged"]
      [] state = "listening" -> [s EXCEPT !.mood = "curious"]
      [] OTHER -> s

\* changeState(newState) without the test for the state already current
changeStateAgain(s, newState, r) ==
    onStateEnter([s EXCEPT !.previousState = s.currentState,
                           !.currentState = newState,
                           !.elapsed = 0,
                           !.stateAge = 0],
                 newState, r)

\* BehaviorStateMachine.changeState(newState)
changeState(s, newState, r) ==
    IF newState = s.currentState THEN s
    ELSE onStateEnter([s EXCEPT !.previousState = s.currentState,
                                !.currentState = newState,
                                !.elapsed = 0,
                                !.stateAge = 0],
                      newState, r)

\* startEnhancedIdleBehaviors(): stopEnhancedIdleBehaviors clears
\* idleBehaviorTimer, a field nothing assigns, so the earlier intervals stay;
\* the id of the new one is stored in idleBehaviorInterval
startEnhancedIdleBehaviors(s, r) ==
    [s EXCEPT !.idleBehaviorInterval = r.id,
              !.timers = Append(@, [kind |-> "interval", exec |-> r.period,
                                    left |-> r.period])]

\* EnhancedTalkingCat.changeState(newState)
talkingCatChangeState(s, newState, r) ==
    LET s1 == changeState(s, newState, r)
    IN  IF newState = "idle" THEN startEnhancedIdleBehaviors(s1, r) ELSE s1

\* registerInteraction()
registerInteraction(s, r) ==
    LET s1 == [s EXCEPT !.interactionAge = 0]
    IN  IF s1.currentState = "sleep"
        THEN talkingCatChangeState(exitSleepMode(s1), "playful", r)
        ELSE s1

\* The idle behaviours by what they do to the state modelled here: the clip
\* they play, the state they change to, the mood they set, whether they move
\* the model, and the delay after which their last callback runs (a timer
\* chain or a frame loop on the clock) with the callback's kind.  The head,
\* ear and tail behaviours touch bones only.
Behavior(clip, fadeMs, loop, state, newMood, moves, delayMs, after) ==
    [clip |-> clip, fadeMs |-> fadeMs, loop |-> loop, state |-> state,
     mood |-> newMood, moves |-> moves, delayMs |-> delayMs, after |-> after]

IdleBehaviors ==
    [performShortWalk |->
        Behavior("walk", 300, TRUE, "none", "none", FALSE, 0, "none"),
     performHeadTilt |->
        Behavior("none", 0, TRUE, "none", "none", FALSE, 0, "none"),
     performPawGrooming |->
        Behavior("paw_attack", 300, FALSE, "curious", "none", FALSE, 2000, "toIdle"),
     performStretch |->
        Behavior("idle", 200, TRUE, "curious", "none", FALSE, 2500, "toIdle"),
     performCuriousLook |->
        Behavior("none", 0, TRUE, "curious", "none", FALSE, 3000, "toIdle"),
     performYawn |->
        Behavior("bite", 200, FALSE, "none", "sleepy", FALSE, 1500, "yawnEnd"),
     performSitAndWatch |->
        Behavior("idle", 500, TRUE, "curious", "none", FALSE, 4000, "toIdle"),
     performPlayfulPounce |->
        Behavior("jump", 200, FALSE, "playful", "none", TRUE, 1200, "toIdle"),
     performTailChase |->
        Behavior("none", 0, TRUE, "playful", "none", FALSE, 2500, "toIdle"),
     performNoseSniff |->
        Behavior("none", 0, TRUE, "curious", "none", FALSE, 2000, "toIdle")]

\* the entries of the table of performRandomIdleBehavior; performQuickJump is
\* listed there and defined nowhere, performEarTwitch and performTailWag are
\* as performHeadTilt here
BehaviorNames == DOMAIN IdleBehaviors \cup {"performQuickJump"}

\* the guard of performRandomIdleBehavior lets it pick a behaviour
MayBehave(s) ==
    ~(s.isPerformingContextualAction \/ s.isMoving \/ s.isRotating)

\* performRandomIdleBehavior() when it picks r.behavior, a behaviour that
\* exists
performRandomIdleBehavior(s, r) ==
    IF ~MayBehave(s) THEN s
    ELSE LET b == IdleBehaviors[r.behavior]
             s1 == IF b.clip # "none"
                   THEN playAnimation(s, b.clip, b.fadeMs, b.loop, r)
                   ELSE s
             s2 == IF b.mood # "none" THEN [s1 EXCEPT !.mood = b.mood] ELSE s1
             s3 == IF b.state # "none"
                   THEN talkingCatChangeState(s2, b.state, r)
                   ELSE s2
             s4 == IF b.moves
                   THEN moveToPosition(s3, "spot", PounceMoveSeconds, NoCallback)
                   ELSE s3
         IN  IF b.delayMs > 0
             THEN [s4 EXCEPT !.timers = Append(@, Timer(b.after, 0, b.delayMs))]
             ELSE s4

\* the call of performRandomIdleBehavior throws: the guard passes and the
\* behaviour picked does not exist
Throws(s, r) == MayBehave(s) /\ r.behavior \notin DOMAIN IdleBehaviors

\* handleIdleState(elapsed); a throw of performRandomIdleBehavior leaves the
\* two assignments after it undone
handleIdleState(s, r) ==
    IF timeSinceInteraction(s) > SleepTransitionMs /\ ~s.isTalking
    THEN changeState(s, "sleep", r)
    ELSE IF s.elapsed * TimeUnit > s.idleBehaviorInterval
    THEN IF Throws(s, r) THEN s
         ELSE [performRandomIdleBehavior(s, r)
                  EXCEPT !.idleBehaviorInterval = r.interval, !.elapsed = 0]
    ELSE s

\* handleSleepState(elapsed) that wakes the cat into a state no handler knows
handleSleepStateAwake(s, r) ==
    IF timeSinceInteraction(s) < WakeWindowMs
    THEN changeState(exitSleepMode(s), "awake", r)
    ELSE s

\* handleSleepState(elapsed)
handleSleepState(s, r) ==
    IF timeSinceInteraction(s) < WakeWindowMs
    THEN changeState(exitSleepMode(s), "playful", r)
    ELSE s

\* update() with the playful state left at once
updateImpatient(s, r) ==
    CASE s.currentState = "idle" -> handleIdleState(s, r)
      [] s.currentState = "playful" -> changeState(s, "idle", r)
      [] s.currentState = "curious" ->
            IF s.elapsed * TimeUnit > CuriousMs THEN changeState(s, "idle", r)
            ELSE s
      [] s.currentState = "talking" ->
            IF ~s.isTalking THEN changeState(s, "idle", r) ELSE s
      [] s.currentState = "sleep" -> handleSleepState(s, r)
      [] OTHER -> s

\* BehaviorStateMachine.update()
update(s, r) ==
    CASE s.currentState = "idle" -> handleIdleState(s, r)
      [] s.currentState = "playful" ->
            IF s.elapsed * TimeUnit > PlayfulMs THEN changeState(s, "idle", r)
            ELSE s
      [] s.currentState = "curious" ->
            IF s.elapsed * TimeUnit > CuriousMs THEN changeState(s, "idle", r)
            ELSE s
      [] s.currentState = "talking" ->
            IF ~s.isTalking THEN changeState(s, "idle", r) ELSE s
      [] s.currentState = "sleep" -> handleSleepState(s, r)
      [] OTHER -> s

\* speakText(text), with a speech synthesizer present
speakText(s, r) ==
    [talkingCatChangeState(s, "talking", r) EXCEPT !.isTalking = TRUE]

\* utter.onend
utterOnEnd(s, r) ==
    rotateTo(fadeToIdle(talkingCatChangeState([s EXCEPT !.isTalking = FALSE],
                                              "idle", r),
                        IdleRestoreFadeMs),
             ContextRotateMs, NoCallback)

\* utter.onerror
utterOnError(s, r) ==
    talkingCatChangeState([s EXCEPT !.isTalking = FALSE], "idle", r)

\* the interval callback of startEnhancedIdleBehaviors
intervalCallback(s, r) ==
    IF s.currentState # "idle" \/ s.isTalking \/ s.isPerformingContextualAction
    THEN s
    ELSE IF Throws(s, r) THEN s
    ELSE performRandomIdleBehavior(s, r)

\* processUserInput(text) up to its await of the reply
processUserInput(s, r) ==
    changeState(registerInteraction(s, r), "processing", r)

\* finishProcessing()
finishProcessing(s, r) == changeState(s, "idle", r)

\* recognition.onstart
recognitionOnStart(s, r) ==
    registerInteraction(changeState(s, "listening", r), r)

\* recognition.onend without a restart, and the microphone button while
\* listening
leaveListening(s, r) ==
    IF s.currentState = "listening" THEN changeState(s, "idle", r) ELSE s

\* ------------------------- ContextDrivenAnimationController: the selection
\* contextMappings, the weights in tenths
Mapping(keywords, emotions, action, weight) ==
    [keywords |-> keywords, emotions |-> emotions, action |-> action,
     weight |-> weight]

contextMappings ==
    <<Mapping(<<"walk", "walking", "stroll", "pace", "step">>,
              <<"rain", "outside", "path", "journey">>,
              "performWalkingContext", 10),
      Mapping(<<"run", "running", "sprint", "fast", "speed", "rush">>,
              <<"energy", "quick", "hurry", "race">>,
              "performRunningContext", 10),
      Mapping(<<"jump", "jumping", "leap", "hop", "bounce">>,
              <<"excited", "happy", "joy", "celebrate">>,
              "performJumpingContext", 8),
      Mapping(<<"sleep", "tired", "sleepy", "rest", "nap">>,
              <<"exhausted", "peaceful", "calm", "quiet">>,
              "performSleepingContext", 7),
      Mapping(<<"look", "see", "watch", "observe", "gaze">>,
              <<"curious", "wonder", "interesting", "notice">>,
              "performLookingContext", 6),
      Mapping(<<"play", "fun", "game", "toy", "playful">>,
              <<"joy", "entertainment", "amusing", "funny">>,
              "performPlayfulContext", 9)>>

\* the strings of the model, letter by letter
Spell ==
    [walk |-> <<"w", "a", "l", "k">>,
     walking |-> <<"w", "a", "l", "k", "i", "n", "g">>,
     stroll |-> <<"s", "t", "r", "o", "l", "l">>,
     pace |-> <<"p", "a", "c", "e">>,
     step |-> <<"s", "t", "e", "p">>,
     rain |-> <<"r", "a", "i", "n">>,
     outside |-> <<"o", "u", "t", "s", "i", "d", "e">>,
     path |-> <<"p", "a", "t", "h">>,
     journey |-> <<"j", "o", "u", "r", "n", "e", "y">>,
     run |-> <<"r", "u", "n">>,
     running |-> <<"r", "u", "n", "n", "i", "n", "g">>,
     sprint |-> <<"s", "p", "r", "i", "n", "t">>,
     fast |-> <<"f", "a", "s", "t">>,
     speed |-> <<"s", "p", "e", "e", "d">>,
     rush |-> <<"r", "u", "s", "h">>,
     energy |-> <<"e", "n", "e", "r", "g", "y">>,
     quick |-> <<"q", "u", "i", "c", "k">>,
     hurry |-> <<"h", "u", "r", "r", "y">>,
     race |-> <<"r", "a", "c", "e">>,
     jump |-> <<"j", "u", "m", "p">>,
     jumping |-> <<"j", "u", "m", "p", "i", "n", "g">>,
     leap |-> <<"l", "e", "a", "p">>,
     hop |-> <<"h", "o", "p">>,
     bounce |-> <<"b", "o", "u", "n", "c", "e">>,
     excited |-> <<"e", "x", "c", "i", "t", "e", "d">>,
     happy |-> <<"h", "a", "p", "p", "y">>,
     joy |-> <<"j", "o", "y">>,
     celebrate |-> <<"c", "e", "l", "e", "b", "r", "a", "t", "e">>,
     sleep |-> <<"s", "l", "e", "e", "p">>,
     tired |-> <<"t", "i", "r", "e", "d">>,
     sleepy |-> <<"s", "l", "e", "e", "p", "y">>,
     rest |-> <<"r", "e", "s", "t">>,
     nap |-> <<"n", "a", "p">>,
     exhausted |-> <<"e", "x", "h", "a", "u", "s", "t", "e", "d">>,
     peaceful |-> <<"p", "e", "a", "c", "e", "f", "u", "l">>,
     calm |-> <<"c", "a", "l", "m">>,
     quiet |-> <<"q", "u", "i", "e", "t">>,
     look |-> <<"l", "o", "o", "k">>,
     see |-> <<"s", "e", "e">>,
     watch |-> <<"w", "a", "t", "c", "h">>,
     observe |-> <<"o", "b", "s", "e", "r", "v", "e">>,
     gaze |-> <<"g", "a", "z", "e">>,
     curious |-> <<"c", "u", "r", "i", "o", "u", "s">>,
     wonder |-> <<"w", "o", "n", "d", "e", "r">>,
     interesting |-> <<"i", "n", "t", "e", "r", "e", "s", "t", "i", "n", "g">>,
     notice |-> <<"n", "o", "t", "i", "c", "e">>,
     play |-> <<"p", "l", "a", "y">>,
     fun |-> <<"f", "u", "n">>,
     game |-> <<"g", "a", "m", "e">>,
     toy |-> <<"t", "o", "y">>,
     playful |-> <<"p", "l", "a", "y", "f", "u", "l">>,
     entertainment |-> <<"e", "n", "t", "e", "r", "t", "a", "i", "n", "m", "e", "n", "t">>,
     amusing |-> <<"a", "m", "u", "s", "i", "n", "g">>,
     funny |-> <<"f", "u", "n", "n", "y">>,
     Run |-> <<"R", "u", "n">>,
     hello |-> <<"h", "e", "l", "l", "o">>]

\* the words a text is made of; a text is a set of them, joined by spaces
Words ==
    {"walk", "Run", "hop", "sleepy", "nap", "look", "playful", "joy",
     "interesting", "hello"}

\* String.prototype.toLowerCase on the capitals the words use
toLowerCase(str) ==
    [i \in 1..Len(str) |-> IF str[i] = "R" THEN "r" ELSE str[i]]

\* String.prototype.includes on spelled strings
IsSubstring(a, b) ==
    \E i \in 0..(Len(b) - Len(a)) : SubSeq(b, i + 1, i + Len(a)) = a

\* the keywords and emotion keywords of the mappings
Terms ==
    UNION {{contextMappings[m].keywords[i] :
                i \in 1..Len(contextMappings[m].keywords)}
           \cup {contextMappings[m].emotions[i] :
                i \in 1..Len(contextMappings[m].emotions)} :
           m \in 1..Len(contextMappings)}

\* for each word, the terms its lower-case form includes
Occurs ==
    [w \in Words |->
        {t \in Terms : IsSubstring(Spell[t], toLowerCase(Spell[w]))}]

\* combinedText.includes(term), combinedText being the lower-case form of
\* the words of t joined by spaces (no term holds a space)
includes(t, term) == \E w \in t : term \in Occurs[w]

\* how many entries of the array terms the text includes
Hits(t, terms) == Cardinality({i \in 1..Len(terms) : includes(t, terms[i])})

\* the score findBestContextMatch gives mapping m, times 1000: the weight is
\* in tenths and the jitter factor j[m] in hundredths
score(t, j, m) ==
    (2 * Hits(t, contextMappings[m].keywords)
       + Hits(t, contextMappings[m].emotions))
    * contextMappings[m].weight * j[m]

\* the loop of findBestContextMatch with the later mapping winning a tie
RECURSIVE bestFromLatest(_, _, _, _, _)
bestFromLatest(t, j, m, bestMatch, highestScore) ==
    IF m > Len(contextMappings) THEN bestMatch
    ELSE IF score(t, j, m) >= highestScore /\ score(t, j, m) > ScoreThreshold
    THEN bestFromLatest(t, j, m + 1, m, score(t, j, m))
    ELSE bestFromLatest(t, j, m + 1, bestMatch, highestScore)

\* the loop of findBestContextMatch from mapping m on; 0 is null
RECURSIVE bestFrom(_, _, _, _, _)
bestFrom(t, j, m, bestMatch, highestScore) ==
    IF m > Len(contextMappings) THEN bestMatch
    ELSE IF score(t, j, m) > highestScore /\ score(t, j, m) > ScoreThreshold
    THEN bestFrom(t, j, m + 1, m, score(t, j, m))
    ELSE bestFrom(t, j, m + 1, bestMatch, highestScore)

\* findBestContextMatch(text) under the jitter draws j
findBestContextMatch(t, j) == bestFrom(t, j, 1, 0, 0)

\* delay(ms), after which the handler resumes at position at
pause(s, at, ms) == [s EXCEPT !.timers = Append(@, Timer(at, 0, ms))]

\* await motionController.rotateTo(targetAngle, 0.3) of performJumpingContext
jumpRotate(s, at) ==
    IF s.isRotating THEN Enqueue(s, Microtask(at, 0, 0, FALSE))
    ELSE rotateTo(s, JumpRotateMs, [kind |-> at, exec |-> 0])

\* a contextual handler resumes at position at
handlerStep(s, at) ==
    CASE at = "walk1" -> pause(s, "walk1p", WaypointPauseMs)
      [] at = "walk1p" -> executeAction(s, 4, 0, "walk2", 0)
      [] at = "walk2" -> pause(s, "walk2p", WaypointPauseMs)
      [] at = "rot1of1" -> executeAction(s, 13, 0, "jump1of1", 0)
      [] at = "rot1of2" -> executeAction(s, 13, 0, "jump1of2", 0)
      [] at = "rot2of2" -> executeAction(s, 13, 0, "jump2of2", 0)
      [] at = "jump1of2" -> pause(s, "jump1of2p", JumpPauseMs)
      [] at = "jump1of2p" -> jumpRotate(s, "rot2of2")
      [] at \in {"walk2p", "jump1of1", "jump2of2"} -> handlerFinally(s)

\* this[contextMatch.action](contextMatch, combinedText) up to the handler's
\* first await; no class defines performLookingContext, so that call throws
\* and the catch and finally blocks run at once.  r.jumps is jumpCount,
\* r.playful the descriptor performPlayfulContext builds.
startHandler(s, m, r) ==
    LET action == contextMappings[m].action IN
    CASE action = "performWalkingContext" -> executeAction(s, 4, 0, "walk1", 0)
      [] action = "performRunningContext" ->
            executeAction(s, 4, 0, "context", 0)
      [] action = "performJumpingContext" ->
            jumpRotate(s, IF r.jumps = 1 THEN "rot1of1" ELSE "rot1of2")
      [] action = "performSleepingContext" ->
            Enqueue(talkingCatChangeState(s, "sleep", r),
                    Microtask("handler", 0, 0, FALSE))
      [] action = "performPlayfulContext" ->
            executeAction(s, r.playful, 0, "context", 0)
      [] OTHER -> handlerFinally(s)

\* the mapping the evaluation of text t fires under jitter draws j and
\* firing draw draw (in percent), 0 if none
Fired(t, j, draw) ==
    LET m == findBestContextMatch(t, j)
    IN  IF m # 0 /\ draw < contextMappings[m].weight * 10 THEN m ELSE 0

\* analyzeAndTriggerContextualAction that fires a mapping whatever the draw
analyzeAndTriggerAlways(s, t, j, draw, r) ==
    IF s.isPerformingContextualAction THEN s
    ELSE IF findBestContextMatch(t, j) # 0
    THEN startHandler([s EXCEPT !.isPerformingContextualAction = TRUE],
                      findBestContextMatch(t, j), r)
    ELSE s

\* analyzeAndTriggerContextualAction(userInput, geminiResponse) on the text
\* t, up to the handler's first await
analyzeAndTrigger(s, t, j, draw, r) ==
    IF s.isPerformingContextualAction THEN s
    ELSE IF Fired(t, j, draw) # 0
    THEN startHandler([s EXCEPT !.isPerformingContextualAction = TRUE],
                      Fired(t, j, draw), r)
    ELSE s

\* ------------------------------------------------------------------ steps
\* the fields the constructors of BehaviorStateMachine and
\* EnhancedTalkingCat assign without a draw
Built ==
    /\ currentState = "idle"
    /\ previousState = "idle"
    /\ elapsed = 0
    /\ mood = "neutral"
    /\ interactionAge = 0
    /\ isTalking = FALSE
    /\ stateAge = 0
    /\ speed = 100
    /\ pose = "upright"
    /\ nEvent = 0
    /\ nIdle = 0
    /\ updated = FALSE

\* this.proceduralLayer = null
NoLayer == [made |-> FALSE]

\* the state after construction but for the clip played and for what the
\* constructors and the callers draw
Wired ==
    /\ isExecuting = FALSE
    /\ actionQueue = <<>>
    /\ execs = <<>>
    /\ microtasks = <<>>
    /\ rafDue = <<>>
    /\ rafPending = <<>>
    /\ isMoving = FALSE
    /\ isRotating = FALSE
    /\ moveTween = NoTween
    /\ rotTween = NoTween
    /\ position = [from |-> "home", to |-> "home", t |-> 0]
    /\ lastClip = NoClip
    /\ isPerformingContextualAction = FALSE
    /\ lastOp = [op |-> "init", n |-> 0]
    /\ dropped = {}
    /\ cancelled = {}
    /\ nSchedule = 0
    /\ nCancel = 0
    /\ nContext = 0
    /\ budget = 0
    /\ playback = [c \in Animations |-> Loaded(c)]
    /\ listeners = <<>>
    /\ mixerDue = FALSE
    /\ plays = <<>>
    /\ autoReturns = {}
    /\ fading = [fade |-> 0, age |-> 0, between |-> 0]
    /\ nPlay = 0
    /\ requests = <<>>
    /\ nMotion = 0
    /\ layer = NoLayer
    /\ nFrame = 0
    /\ nChange = 0
    /\ Built

\* the classes of the core constructed, no clip played yet
Assembled ==
    /\ Wired
    /\ timers = <<>>
    /\ activeAction = "none"
    /\ isTransitioning = FALSE

Constructed ==
    /\ Assembled
    /\ idleBehaviorInterval = MinIdleIntervalMs
    /\ text = {}
    /\ jitter = [m \in {} |-> 0]
    /\ firingDraw = 0

Init == Constructed /\ menu \in Menus

\* no job is running and none must run before a call from outside
Quiet == microtasks = <<>> /\ rafDue = <<>>

Counters(ds, dc, dx, db) ==
    /\ nSchedule' = nSchedule + ds
    /\ nCancel' = nCancel + dc
    /\ nContext' = nContext + dx
    /\ menu' = menu
    /\ IF dc = 0 THEN dropped' = dropped /\ cancelled' = cancelled ELSE TRUE
    /\ budget' = budget + db
    /\ UNCHANGED mixerVars
    /\ UNCHANGED motionVars
    /\ UNCHANGED inputVars

\* a caller schedules descriptor d
Schedule(d) ==
    /\ Quiet
    /\ d \in menu
    /\ nSchedule < MaxSchedule
    /\ budget + Cost(d) <= MaxExec
    /\ Becomes(scheduleAction(St, d, nSchedule + 1))
    /\ lastOp' = [op |-> "schedule", n |-> IF isExecuting THEN 1 ELSE 0]
    /\ Counters(1, 0, 0, Cost(d))

\* a caller cancels
CancelAll ==
    /\ Quiet
    /\ nCancel < MaxCancel
    /\ Becomes(cancelAll(St))
    /\ lastOp' = [op |-> "cancelAll", n |-> Len(actionQueue)]
    /\ dropped' = dropped \cup {actionQueue[i].arrival : i \in 1..Len(actionQueue)}
    /\ cancelled' = cancelled \cup
                        {[exec |-> e, begun |-> Begun(execs[e])] :
                            e \in {x \in 1..Len(execs) : execs[x].pc # "done"}}
    /\ Counters(0, 1, 0, 0)

\* analyzeAndTriggerContextualAction fires a handler, which hands descriptor
\* d to executeAction
ContextFire(d) ==
    /\ Quiet
    /\ nContext < MaxContext
    /\ budget + Cost(d) <= MaxExec
    /\ ~isPerformingContextualAction
    /\ Becomes(analyzeAndTriggerContextualAction(St, d))
    /\ lastOp' = [op |-> "context", n |-> d]
    /\ Counters(0, 0, 1, Cost(d))

\* the next promise continuation runs
RunMicrotask ==
    /\ microtasks # <<>>
    /\ LET m == Head(microtasks)
           s == [St EXCEPT !.microtasks = Tail(@)]
       IN  /\ Becomes(IF m.hops > 0
                      THEN Enqueue(s, [m EXCEPT !.hops = @ - 1])
                      ELSE CASE m.kind = "settle" -> settle(s, m.exec, m.err)
                             [] m.kind = "resume" -> resume(s, m.exec)
                             [] m.kind = "handler" -> handlerFinally(s)
                             [] m.kind \in HandlerWaits ->
                                    handlerStep(s, m.kind))
           /\ lastOp' = [op |-> m.kind, n |-> m.exec]
    /\ Counters(0, 0, 0, 0)

RemoveAt(q, i) == SubSeq(q, 1, i - 1) \o SubSeq(q, i + 1, Len(q))

\* the timers of the animation manager, the scheduler and the selector
CoreTimers ==
    {"transition", "oneshot", "face", "cleanup"} \cup HandlerWaits

\* a timer that is due fires
FireTimer ==
    /\ microtasks = <<>>
    /\ \E i \in 1..Len(timers) :
        /\ timers[i].left = 0
        /\ timers[i].kind \in CoreTimers
        /\ LET tm == timers[i]
               s == [St EXCEPT !.timers = RemoveAt(@, i)]
           IN  /\ Becomes(CASE tm.kind = "transition" ->
                                 [s EXCEPT !.isTransitioning = FALSE]
                            [] tm.kind = "oneshot" ->
                                 Enqueue(SetPc(s, tm.exec, "settling"),
                                         Microtask("settle", tm.exec, 1, FALSE))
                            [] tm.kind = "face" -> faceCamera(s, tm.exec)
                            [] tm.kind = "cleanup" -> contextCleanup(s)
                            [] tm.kind \in HandlerWaits ->
                                 Enqueue(s, Microtask(tm.kind, 0, 0, FALSE)))
               /\ lastOp' = [op |-> tm.kind, n |-> tm.exec]
    /\ Counters(0, 0, 0, 0)

\* the next animation-frame callback of the current frame runs
RunFrame ==
    /\ microtasks = <<>>
    /\ rafDue # <<>>
    /\ LET s == [St EXCEPT !.rafDue = Tail(@)]
       IN  Becomes(IF Head(rafDue) = "rotate" THEN animateRotate(s)
                   ELSE animateMove(s))
    /\ lastOp' = [op |-> Head(rafDue), n |-> 0]
    /\ Counters(0, 0, 0, 0)

\* the timers and the frame requests of s one unit of time later
passTime(s) ==
    [s EXCEPT
          !.timers = [i \in 1..Len(s.timers) |->
                        [s.timers[i] EXCEPT !.left = @ - 1]],
          !.rafDue = s.rafPending,
          !.rafPending = <<>>,
          !.execs = [e \in 1..Len(s.execs) |->
                        IF s.execs[e].pc = "timer"
                        THEN [s.execs[e] EXCEPT !.age = @ + 1]
                        ELSE IF /\ s.execs[e].pc = "done"
                                /\ \/ s.execs[e].parent = 0
                                   \/ s.execs[s.execs[e].parent].pc = "done"
                        THEN Retired
                        ELSE s.execs[e]]]

\* one unit of time passes and the next frame begins
Tick ==
    /\ Quiet
    /\ \A i \in 1..Len(timers) : timers[i].left > 0
    /\ timers # <<>> \/ rafPending # <<>>
    /\ Becomes(passTime(St))
    /\ lastOp' = [op |-> "tick", n |-> 0]
    /\ Counters(0, 0, 0, 0)

Next ==
    \/ \E d \in DescIds : Schedule(d)
    \/ CancelAll
    \/ \E d \in ContextDescs : ContextFire(d)
    \/ RunMicrotask
    \/ FireTimer
    \/ RunFrame
    \/ Tick

Spec == Init /\ [][Next]_vars

\* ================================================================ claims
ExecIds == 1..Len(execs)
Live == {e \in ExecIds : execs[e].pc # "done"}
Kids(p) == {c \in ExecIds : execs[c].parent = p}
DescOf(e) == Descriptors[execs[e].desc]
Known(e) == execs[e].desc # 0
IsPrefix(a, b) == Len(a) <= Len(b) /\ a = SubSeq(b, 1, Len(a))
Settled(e) == execs[e].pc \in {"settling", "done"}

\* C1 (as claimed): at most one top-level action descriptor is in execution
\* at a time.
C1_AtMostOneTopLevel ==
    Cardinality({e \in Live : execs[e].parent = 0}) <= 1

\* C2: descriptors scheduled while the scheduler is busy start in arrival
\* order (nothing that is still queued arrived before a descriptor that has
\* started, and the queue is in arrival order); a descriptor scheduled while
\* the scheduler is not busy starts inside the call and is not queued.
C2_FifoAndImmediate ==
    /\ \A e \in ExecIds : \A i \in 1..Len(actionQueue) :
          execs[e].arrival < actionQueue[i].arrival
    /\ \A i, j \in 1..Len(actionQueue) :
          i < j => actionQueue[i].arrival < actionQueue[j].arrival
    /\ (lastOp.op = "schedule" /\ lastOp.n = 0) =>
          /\ \E e \in ExecIds : /\ execs[e].arrival = nSchedule
                                /\ execs[e].via = "direct"
                                /\ execs[e].pc # "start"
          /\ \A i \in 1..Len(actionQueue) : actionQueue[i].arrival # nSchedule
    /\ (lastOp.op = "schedule" /\ lastOp.n = 1) =>
          /\ actionQueue # <<>>
          /\ actionQueue[Len(actionQueue)].arrival = nSchedule
          /\ \A e \in ExecIds : execs[e].arrival # nSchedule

\* C2 witness: a descriptor that waited in the queue has started while a
\* later arrival is still queued.
C2_Witness ==
    \E e \in Live : /\ execs[e].via = "queue"
                    /\ actionQueue # <<>>
                    /\ actionQueue[1].arrival = execs[e].arrival + 1

\* C3: in the step in which an execution ends, normally or with an error, the
\* busy flag is cleared and, if the queue is not empty, its head is removed
\* and starts (which sets the flag again); an error ends the execution like a
\* normal completion: the composite that awaits it is resumed, not failed.
C3_EndOfExecution ==
    [][\A e \in ExecIds :
          (execs[e].pc # "done" /\ execs'[e].pc = "done") =>
             /\ IF actionQueue = <<>>
                THEN /\ ~isExecuting'
                     /\ actionQueue' = <<>>
                     /\ Len(execs') = Len(execs)
                ELSE /\ isExecuting'
                     /\ actionQueue' = Tail(actionQueue)
                     /\ Len(execs') > Len(execs)
                     /\ execs'[Len(execs) + 1].desc = Head(actionQueue).desc
                     /\ execs'[Len(execs) + 1].arrival = Head(actionQueue).arrival
                     /\ execs'[Len(execs) + 1].via = "queue"
                     /\ execs'[Len(execs) + 1].pc # "start"
             /\ execs[e].parent # 0 =>
                   /\ execs'[execs[e].parent].pc # "done"
                   /\ ~execs'[execs[e].parent].failed
                   /\ microtasks'[Len(microtasks')] =
                         Microtask("resume", execs[e].parent, 0, FALSE)
      ]_vars

\* C3 witness: an execution has just ended with an error and the head of the
\* queue has started in that step.
C3_Witness ==
    /\ lastOp.op = "settle"
    /\ execs[lastOp.n].failed
    /\ \E e \in Live : execs[e].via = "queue" /\ e > lastOp.n

\* C4: under a sequential composite, only the sub-action started last can be
\* unfinished; the sub-actions started are the first ones of the list, in
\* list order; a finished sub-action has no unfinished sub-action of its own.
C4_SequentialOrder ==
    \A p \in Live :
       (DescOf(p).type = "composite" /\ DescOf(p).hasActions
           /\ ~DescOf(p).parallel) =>
          /\ Cardinality(Kids(p)) = execs[p].idx
          /\ \A c \in Kids(p) :
                LET rank == Cardinality({k \in Kids(p) : k <= c})
                IN  /\ rank <= Len(DescOf(p).actions)
                    /\ execs[c].desc = DescOf(p).actions[rank]
                    /\ execs[c].pc # "done" => rank = execs[p].idx
                    /\ execs[c].pc = "done" =>
                          \A g \in Kids(c) : execs[g].pc = "done"

\* C4 witness: of sub-actions [A,B,C], B has failed and C is running.
C4_Witness ==
    \E p \in Live :
       /\ execs[p].desc = 6
       /\ \E b, c \in Kids(p) : /\ b < c
                                /\ execs[b].failed
                                /\ execs[c].pc = "rotate"

\* C5: a parallel composite has started all its sub-actions as soon as it has
\* started itself, and it is settled only when all of them are done.
C5_ParallelAll ==
    \A p \in ExecIds :
       (Known(p) /\ DescOf(p).type = "composite" /\ DescOf(p).hasActions
           /\ DescOf(p).parallel) =>
          /\ execs[p].pc # "done" =>
                /\ Cardinality(Kids(p)) = Len(DescOf(p).actions)
                /\ \A c \in Kids(p) :
                      execs[c].desc =
                         DescOf(p).actions[Cardinality({k \in Kids(p) : k <= c})]
          /\ Settled(p) => \A c \in Kids(p) : execs[c].pc = "done"
          /\ execs[p].pc \in {"all", "settling", "done"}

\* C5 witness: a parallel composite whose second sub-action finished before
\* its first has settled after both.
C5_Witness ==
    \E p \in ExecIds :
       /\ execs[p].desc = 7
       /\ execs[p].pc = "settling"
       /\ Cardinality(Kids(p)) = 2
       /\ \A c \in Kids(p) : execs[c].pc = "done"

\* C6: right after cancelAll the queue is empty, the busy flag is false and
\* the idle clip has been requested; no descriptor that cancelAll removed
\* from the queue is ever executed.
C6_CancelAll ==
    /\ lastOp.op = "cancelAll" =>
          /\ actionQueue = <<>>
          /\ ~isExecuting
          /\ lastClip.name = "idle"
    /\ \A e \in ExecIds : execs[e].arrival \notin dropped

\* C6 witness: cancelAll has just run with three descriptors queued.
C6_Witness ==
    /\ lastOp.op = "cancelAll"
    /\ lastOp.n = 3
    /\ Cardinality(dropped) = 3

\* C7 (as claimed): an execution that was in flight when cancelAll ran begins
\* no further stage or sub-action afterwards.
C7_NoStageAfterCancel ==
    \A c \in cancelled :
       Known(c.exec) => Begun(execs[c.exec]) = c.begun

\* C8: the stages of a locomotion with a target happen in the order clip,
\* rotate, move, idle, face, each after the completion of the one before, and
\* the action settles only after the final rotation has completed.
C8_LocomotionStages ==
    \A e \in ExecIds :
       (Known(e) /\ DescOf(e).type = "locomotion" /\ DescOf(e).target) =>
          LET x == execs[e] IN
          /\ IsPrefix(x.stages, LocoStages)
          /\ Settled(e) => x.stages = LocoStages
          /\ x.pc = "rotate" =>
                /\ Len(x.stages) = 2
                /\ isRotating /\ rotTween.cb = [kind |-> "rotated", exec |-> e]
          /\ x.pc = "move" =>
                /\ Len(x.stages) = 4
                /\ isMoving /\ moveTween.cb = [kind |-> "arrived", exec |-> e]
          /\ x.pc = "delay" =>
                /\ Len(x.stages) = 6
                /\ \E i \in 1..Len(timers) :
                      timers[i].kind = "face" /\ timers[i].exec = e
          /\ x.pc = "face" =>
                /\ Len(x.stages) = 7
                /\ isRotating /\ rotTween.cb = [kind |-> "faced", exec |-> e]
          /\ x.pc \in {"rotate", "move", "delay", "face", "orphan",
                       "settling", "done"}

\* C8 witness: a locomotion with a target has gone through all its stages.
C8_Witness ==
    \E e \in ExecIds :
       /\ Known(e) /\ DescOf(e).type = "locomotion" /\ DescOf(e).target
       /\ execs[e].pc = "done"
       /\ execs[e].stages = LocoStages
       /\ position.from = "spot"

\* C9: in every reachable state, executing a locomotion without a target
\* requests its clip and nothing else: it starts no tween, requests no frame,
\* sets no timer of its own, leaves position and the busy flags of the motion
\* controller as they are, and its completion is already queued as the next
\* promise continuation; such an execution is never found waiting.
C9_NoTargetOnlyClip ==
    /\ \A d \in DescIds :
          (Descriptors[d].type = "locomotion" /\ ~Descriptors[d].target) =>
             LET s == executeAction(St, d, 0, "direct", 0)
                 e == Len(execs) + 1
             IN  /\ s.isMoving = isMoving /\ s.isRotating = isRotating
                 /\ s.moveTween = moveTween /\ s.rotTween = rotTween
                 /\ s.position = position
                 /\ s.rafPending = rafPending /\ s.rafDue = rafDue
                 /\ s.lastClip.name = Descriptors[d].animation
                 /\ \A i \in 1..Len(s.timers) :
                       i > Len(timers) => s.timers[i].kind = "transition"
                 /\ s.execs[e].stages = <<"clip">>
                 /\ s.microtasks =
                       Append(microtasks, Microtask("settle", e, 0, FALSE))
    /\ \A e \in Live :
          (DescOf(e).type = "locomotion" /\ ~DescOf(e).target) =>
             /\ execs[e].pc = "settling"
             /\ execs[e].stages = <<"clip">>
             /\ \E i \in 1..Len(microtasks) :
                   microtasks[i] = Microtask("settle", e, 0, FALSE)

\* C9 witness: a locomotion without a target has completed while a tween of
\* another action was in flight, which it left alone.
C9_Witness ==
    /\ lastOp.op = "settle"
    /\ Known(lastOp.n)
    /\ DescOf(lastOp.n).type = "locomotion" /\ ~DescOf(lastOp.n).target
    /\ execs[lastOp.n].stages = <<"clip">>
    /\ isRotating

\* C10 (as claimed): a oneshot settles exactly when its declared duration
\* (1000 ms when none is declared) has elapsed since it started.
C10_OneshotDuration ==
    \A e \in ExecIds :
       (Known(e) /\ DescOf(e).type = "oneshot") =>
          LET declared == IF DescOf(e).duration = NoDuration
                          THEN DefaultOneshotMs ELSE DescOf(e).duration
          IN  /\ execs[e].age <= Units(declared)
              /\ Settled(e) => execs[e].age = Units(declared)

\* ======================================================================
\* The AnimationStateManager with the mixer it drives, on its own: callers
\* play and stop clips, the render loop updates the mixer once a frame.
\* ======================================================================

\* ---------------------------------------------------------------- bounds
\* calls of playAction and stopAction from outside in a behaviour
MaxPlay == 3
\* length of every clip, in time units
ClipLength == 2

\* ------------------------------------------------------ program constants
AutoReturnGraceMs == 100
StopFadeMs == 300

\* the clip names callers pass ("meow" is not in the clip table) and the
\* fade durations, in milliseconds
PlayNames == {"idle", "jump", "meow"}
PlayFades == {DefaultFadeMs, 2 * DefaultFadeMs}

\* the counters and ghosts only the scheduler steps change
schedulerVars ==
    <<dropped, cancelled, menu, nSchedule, nCancel, nContext, budget,
      inputVars>>

\* action.fadeOut(duration) on the action of clip c, if there is one
fadeOut(pb, c, fadeMs) ==
    IF c \in Animations /\ pb[c].mode # "off"
    THEN [pb EXCEPT ![c].fadeLeft = Units(fadeMs)]
    ELSE pb

\* startClip that registers the listener whatever the loop mode
startClipAlwaysListens(m, s, old, fadeMs, loop, id) ==
    IF s.lastClip.result # "accepted" THEN m
    ELSE [playback |->
            [c \in Animations |->
                IF c = s.lastClip.name
                THEN [loop |-> loop, time |-> 0, mode |-> "on", fadeLeft |-> 0]
                ELSE fadeOut(m.playback, old, fadeMs)[c]],
          listeners |->
            Append(m.listeners, [clip |-> s.lastClip.name, play |-> id])]

\* the mixer's side of one playAction call that took the manager from clip
\* old to state s: reset, setLoop and play of the next action, the fade-out of
\* the previous one, and the 'finished' listener of a play-once clip.  m is
\* [playback, listeners]; id numbers the accepted play.
startClip(m, s, old, fadeMs, loop, id) ==
    IF s.lastClip.result # "accepted" THEN m
    ELSE [playback |->
            [c \in Animations |->
                IF c = s.lastClip.name
                THEN [loop |-> loop, time |-> 0, mode |-> "on", fadeLeft |-> 0]
                ELSE fadeOut(m.playback, old, fadeMs)[c]],
          listeners |->
            IF loop THEN m.listeners
            ELSE Append(m.listeners, [clip |-> s.lastClip.name, play |-> id])]

\* stopAction that also ends the transition in progress
stopActionEndsTransition(s) ==
    [s EXCEPT !.activeAction = "none", !.isTransitioning = FALSE]

\* stopAction(fadeDuration): clearTimeouts finds pendingTimeouts empty
stopAction(s) == [s EXCEPT !.activeAction = "none"]

\* one mixer.update of a clip action: time first, then weight
advance(a) ==
    LET timed == IF a.mode # "on" THEN a
                 ELSE IF a.loop
                 THEN [a EXCEPT !.time = (@ + 1) % ClipLength]
                 ELSE IF a.time + 1 >= ClipLength
                 THEN [a EXCEPT !.time = ClipLength, !.mode = "held"]
                 ELSE [a EXCEPT !.time = @ + 1]
    IN  IF timed.mode = "off" \/ timed.fadeLeft = 0 THEN timed
        ELSE IF timed.fadeLeft = 1
        THEN [timed EXCEPT !.fadeLeft = 0, !.mode = "off"]
        ELSE [timed EXCEPT !.fadeLeft = @ - 1]

\* the clips whose play-once run ends in this update
Finishing == {c \in Animations : /\ playback[c].mode = "on"
                                 /\ ~playback[c].loop
                                 /\ playback[c].time + 1 >= ClipLength}

\* mixerFinishedHandler of listener h: remove itself, start the grace delay
graceTimers(ls) ==
    [i \in 1..Len(ls) |-> Timer("grace", ls[i].play, AutoReturnGraceMs)]

\* ------------------------------------------------------------------ steps
\* the mixer and the ghosts after a playAction call that led to state s
Played(s, fadeMs, loop) ==
    LET m == startClip([playback |-> playback, listeners |-> listeners], s,
                       activeAction, fadeMs, loop, Len(plays) + 1)
        accepted == s.lastClip.result = "accepted"
    IN  /\ playback' = m.playback
        /\ listeners' = m.listeners
        /\ plays' = IF accepted
                    THEN Append(plays, [clip |-> s.lastClip.name, loop |-> loop])
                    ELSE plays
        /\ fading' = IF accepted
                     THEN [fade |-> Units(fadeMs), age |-> 0, between |-> 0]
                     ELSE [fading EXCEPT !.between = @ + 1]

\* a caller plays a clip
Play(name, fadeMs, loop) ==
    /\ nPlay < MaxPlay
    /\ LET s == playAction(St, name, fadeMs, loop)
       IN  Becomes(s) /\ Played(s, fadeMs, loop)
    /\ lastOp' = [op |-> "play", n |-> 0]
    /\ nPlay' = nPlay + 1
    /\ UNCHANGED <<mixerDue, autoReturns>>
    /\ UNCHANGED <<schedulerVars, motionVars>>

\* a caller stops the active clip
StopClip ==
    /\ nPlay < MaxPlay
    /\ Becomes(stopAction(St))
    /\ playback' = fadeOut(playback, activeAction, StopFadeMs)
    /\ plays' = IF activeAction = "none" THEN plays
                ELSE Append(plays, [clip |-> "none", loop |-> TRUE])
    /\ lastOp' = [op |-> "stop", n |-> 0]
    /\ nPlay' = nPlay + 1
    /\ fading' = [fading EXCEPT !.between = @ + 1]
    /\ UNCHANGED <<listeners, mixerDue, autoReturns>>
    /\ UNCHANGED <<schedulerVars, motionVars>>

\* a timer of the manager that is due fires: the end of a transition, or the
\* end of a grace delay, which calls fadeToIdle()
ClipFireTimer ==
    /\ \E i \in 1..Len(timers) :
        /\ timers[i].left = 0
        /\ LET tm == timers[i]
               s == [St EXCEPT !.timers = RemoveAt(@, i)]
           IN  /\ IF tm.kind = "transition"
                  THEN /\ Becomes([s EXCEPT !.isTransitioning = FALSE])
                       /\ UNCHANGED <<playback, listeners, plays, fading,
                                      autoReturns>>
                  ELSE /\ Becomes(fadeToIdle(s, DefaultFadeMs))
                       /\ Played(fadeToIdle(s, DefaultFadeMs), DefaultFadeMs,
                                 TRUE)
                       /\ autoReturns' = autoReturns \cup {tm.exec}
               /\ lastOp' = [op |-> tm.kind, n |-> tm.exec]
    /\ UNCHANGED <<mixerDue, nPlay>>
    /\ UNCHANGED <<schedulerVars, motionVars>>

\* the render loop calls mixer.update: every clip action advances, and the
\* listeners of the play-once clips that end run
MixerUpdate ==
    /\ mixerDue
    /\ LET fired == SelectSeq(listeners, LAMBDA h : h.clip \in Finishing)
       IN  /\ Becomes([St EXCEPT !.timers = @ \o graceTimers(fired)])
           /\ listeners' = SelectSeq(listeners, LAMBDA h : h.clip \notin Finishing)
    /\ playback' = [c \in Animations |-> advance(playback[c])]
    /\ mixerDue' = FALSE
    /\ lastOp' = [op |-> "mixer", n |-> 0]
    /\ UNCHANGED <<plays, autoReturns, fading, nPlay>>
    /\ UNCHANGED <<schedulerVars, motionVars>>

\* one unit of time passes and the next frame begins
ClipTick ==
    /\ ~mixerDue
    /\ \A i \in 1..Len(timers) : timers[i].left > 0
    /\ Becomes([St EXCEPT !.timers = [i \in 1..Len(timers) |->
                                        [timers[i] EXCEPT !.left = @ - 1]]])
    /\ mixerDue' = TRUE
    /\ fading' = IF isTransitioning THEN [fading EXCEPT !.age = @ + 1]
                 ELSE fading
    /\ lastOp' = [op |-> "tick", n |-> 0]
    /\ UNCHANGED <<playback, listeners, plays, autoReturns, nPlay>>
    /\ UNCHANGED <<schedulerVars, motionVars>>

InitClip == Constructed /\ menu = {}

NextClip ==
    \/ \E name \in PlayNames, fadeMs \in PlayFades, loop \in BOOLEAN :
          Play(name, fadeMs, loop)
    \/ StopClip
    \/ ClipFireTimer
    \/ MixerUpdate
    \/ ClipTick

SpecClip == InitClip /\ [][NextClip]_vars

\* ------------------------------------------------------------ its claims
\* what the manager and the mixer hold between calls
managerState == <<activeAction, isTransitioning, timers, listeners, playback>>
TransitionTimers == SelectSeq(timers, LAMBDA x : x.kind = "transition")
GraceTimers == SelectSeq(timers, LAMBDA x : x.kind = "grace")

\* C11: a play call made while a transition is in progress returns null and
\* leaves the active action, the transition flag, the timers and the
\* listeners as they were; and the request never takes effect later: the
\* active action only ever changes to the clip of a request accepted in that
\* very step, or to none in a stop.
C11_ReentrantPlayRejected ==
    [][/\ (isTransitioning /\ lastOp'.op = "play") =>
            /\ lastClip'.result = "rejected"
            /\ UNCHANGED managerState
       /\ (activeAction' # activeAction) =>
            \/ lastClip'.result = "accepted" /\ lastClip'.name = activeAction'
            \/ lastOp'.op = "stop" /\ activeAction' = "none"]_vars

C11_Witness ==
    /\ lastOp.op = "play"
    /\ lastClip.result = "rejected"
    /\ lastClip.name \in Animations \ {activeAction}
    /\ isTransitioning

\* C12: a play call naming a clip that is not in the clip table returns null
\* and changes nothing.
C12_UnknownClipNoOp ==
    [][(lastOp'.op = "play" /\ lastClip'.name \notin Animations) =>
            /\ lastClip'.result \in {"unknown", "rejected"}
            /\ UNCHANGED managerState]_vars

C12_Witness ==
    /\ lastOp.op = "play"
    /\ lastClip.result = "unknown"
    /\ activeAction # "none"

\* C13 (as claimed): a play call naming the clip that is already active
\* returns the current action and changes nothing.
C13_SameClipReturnsCurrent ==
    [][(lastOp'.op = "play" /\ lastClip'.name = activeAction) =>
            /\ lastClip'.result = "same"
            /\ UNCHANGED managerState]_vars

\* C13 (amended): a play call naming the clip that is already active changes
\* nothing (active action, playback position, loop mode, transition flag,
\* timers, listeners); it returns the current action when no transition is in
\* progress, and null when one is.
C13_SameClipNoOp ==
    [][(lastOp'.op = "play" /\ lastClip'.name = activeAction) =>
            /\ lastClip'.result = (IF isTransitioning THEN "rejected" ELSE "same")
            /\ UNCHANGED managerState]_vars

C13_Witness ==
    /\ lastOp.op = "play"
    /\ lastClip.result = "same"
    /\ lastClip.name = activeAction
    /\ playback[activeAction].time > 0

\* C14: the transition flag is set exactly while the timer of the last
\* accepted play is pending, that timer runs for the fade duration of that
\* play whatever calls are made meanwhile, and the flag is cleared only by
\* that timer; so there is never more than one transition and the flag is
\* never left set.
C14_FlagClearsAfterFade ==
    /\ Len(TransitionTimers) = (IF isTransitioning THEN 1 ELSE 0)
    /\ isTransitioning =>
          /\ fading.age <= fading.fade
          /\ TransitionTimers[1].left = fading.fade - fading.age
    /\ (lastOp.op = "transition") =>
          ~isTransitioning /\ fading.age = fading.fade

C14_Witness ==
    /\ lastOp.op = "transition"
    /\ fading.fade = 2
    /\ fading.between >= 2
    /\ activeAction = "none"

\* the plays that still have an auto-return to come: a listener registered or
\* a grace delay running
AwaitingReturn ==
    [i \in 1..Len(listeners) |-> listeners[i].play]
        \o [i \in 1..Len(GraceTimers) |-> GraceTimers[i].exec]

\* no play has more than one auto-return, past or to come, and a play
\* accepted with loop = true has none
OncePerPlay ==
    /\ \A i, j \in 1..Len(AwaitingReturn) :
          i # j => AwaitingReturn[i] # AwaitingReturn[j]
    /\ \A i \in 1..Len(AwaitingReturn) :
          /\ AwaitingReturn[i] \notin autoReturns
          /\ ~plays[AwaitingReturn[i]].loop
    /\ \A p \in autoReturns : ~plays[p].loop

\* C15: when the active clip, accepted with loop = false, ends, the grace
\* delay of that play starts; when a grace delay ends the manager requests the
\* idle clip; this happens at most once for each accepted play and never for a
\* play accepted with loop = true.
C15_AutoReturnToIdle ==
    [][/\ (lastOp'.op = "mixer" /\ activeAction \in Finishing) =>
            \E i \in 1..Len(timers') :
                timers'[i] = Timer("grace", Len(plays), AutoReturnGraceMs)
       /\ (lastOp'.op = "grace") =>
            /\ lastClip'.name = "idle"
            /\ lastOp'.n \notin autoReturns
       /\ OncePerPlay']_vars

C15_Witness ==
    /\ lastOp.op = "grace"
    /\ lastClip.result = "accepted"
    /\ activeAction = "idle"
    /\ lastOp.n = Len(plays) - 1
    /\ plays[lastOp.n] = [clip |-> "jump", loop |-> FALSE]
    /\ \E p \in 1..(lastOp.n - 1) : plays[p].loop /\ plays[p].clip = "idle"

\* C16 (as claimed): the auto-return of a play that a newer accepted play or a
\* stop has superseded never replaces the newer active action: a grace delay
\* whose idle request is accepted belongs to the latest play.
C16_SupersededAutoReturnIgnored ==
    (lastOp.op = "grace" /\ lastClip.result = "accepted") =>
        lastOp.n = Len(plays) - 1

\* ======================================================================
\* The SmoothMotionController on its own: callers move and rotate the
\* object, the browser runs the tweens' animation-frame callbacks.
\* ======================================================================

\* ---------------------------------------------------------------- bounds
\* calls of moveToPosition and rotateTo from outside in a behaviour
MaxMotion == 3
\* the angles, in degrees, for which the limiting is compared with the claim
MaxAngle == 720

\* the inputs of the calls: targets, durations in seconds and milliseconds,
\* angles in degrees
MoveTargets == {"spot", "home"}
MoveSeconds == {1, 2}
RotateMs == {RotateToTargetMs, FaceCameraRotateMs}
RotateAngles == {-540, -135, 30, 100, 300}

\* normalizeAngle (lines 114-118), in degrees
RECURSIVE normalizeAngle(_)
normalizeAngle(angle) ==
    IF angle > 180 THEN normalizeAngle(angle - 360)
    ELSE IF angle < -180 THEN normalizeAngle(angle + 360)
    ELSE angle

\* limitedTargetAngle without the normalisation
limitAngleUnnormalized(targetAngleY) ==
    IF targetAngleY < -90 THEN -90
    ELSE IF targetAngleY > 45 THEN 45
    ELSE targetAngleY

\* limitedTargetAngle (lines 111-130), in degrees
limitAngle(targetAngleY) ==
    LET limited == normalizeAngle(targetAngleY)
    IN  IF limited < -90 THEN -90
        ELSE IF limited > 45 THEN 45
        ELSE limited

\* SmoothMotionController.rotateTo with the angle QuaternionRotationController
\* turns to
rotateToAngle(s, targetAngleY, durationMs, cb) ==
    IF s.isRotating THEN s
    ELSE [rotateTo(s, durationMs, cb) EXCEPT
              !.rotTween.target = limitAngle(targetAngleY)]

\* the callback the callers of this part pass
Signal(id) == [kind |-> "signal", exec |-> id]

Request(kind, arg, duration) ==
    [kind |-> kind, arg |-> arg, duration |-> duration, age |-> 0,
     doneAt |-> <<>>]

\* ------------------------------------------------------------------ steps
\* a caller moves the object
MoveTo(target, seconds) ==
    /\ nMotion < MaxMotion
    /\ Becomes(moveToPosition(St, target, seconds, Signal(Len(requests) + 1)))
    /\ requests' = IF isMoving THEN requests
                   ELSE Append(requests,
                               Request("move", target, Units(seconds * 1000)))
    /\ lastOp' = [op |-> "moveTo", n |-> 0]
    /\ nMotion' = nMotion + 1
    /\ UNCHANGED <<schedulerVars, mixerVars, layerVars>>

\* a caller rotates the object
RotateTo(angle, ms) ==
    /\ nMotion < MaxMotion
    /\ Becomes(rotateToAngle(St, angle, ms, Signal(Len(requests) + 1)))
    /\ requests' = IF isRotating THEN requests
                   ELSE Append(requests, Request("rotate", angle, Units(ms)))
    /\ lastOp' = [op |-> "rotateTo", n |-> 0]
    /\ nMotion' = nMotion + 1
    /\ UNCHANGED <<schedulerVars, mixerVars, layerVars>>

\* the next animation-frame callback of the current frame runs; a tween that
\* ends clears its flag, calls onComplete and resolves its promise
MotionFrame ==
    /\ rafDue # <<>>
    /\ LET s == [St EXCEPT !.rafDue = Tail(@)]
           tween == IF Head(rafDue) = "rotate" THEN rotTween ELSE moveTween
           after == IF Head(rafDue) = "rotate" THEN animateRotate(s)
                    ELSE animateMove(s)
           ended == IF Head(rafDue) = "rotate" THEN ~after.isRotating
                    ELSE ~after.isMoving
       IN  /\ Becomes(after)
           /\ requests' =
                IF ended /\ tween.cb.kind = "signal"
                THEN [requests EXCEPT ![tween.cb.exec].doneAt =
                                          Append(@, requests[tween.cb.exec].age)]
                ELSE requests
    /\ lastOp' = [op |-> Head(rafDue), n |-> 0]
    /\ UNCHANGED <<schedulerVars, mixerVars, nMotion, layerVars>>

\* one frame of time passes
MotionTick ==
    /\ rafDue = <<>>
    /\ rafPending # <<>>
    /\ Becomes([St EXCEPT !.rafDue = rafPending, !.rafPending = <<>>])
    /\ requests' = [i \in 1..Len(requests) |->
                      IF requests[i].doneAt = <<>>
                      THEN [requests[i] EXCEPT !.age = @ + 1]
                      ELSE requests[i]]
    /\ lastOp' = [op |-> "tick", n |-> 0]
    /\ UNCHANGED <<schedulerVars, mixerVars, nMotion, layerVars>>

InitMotion == Constructed /\ menu = {}

NextMotion ==
    \/ \E target \in MoveTargets, seconds \in MoveSeconds :
          MoveTo(target, seconds)
    \/ \E angle \in RotateAngles, ms \in RotateMs : RotateTo(angle, ms)
    \/ MotionFrame
    \/ MotionTick

SpecMotion == InitMotion /\ [][NextMotion]_vars

\* ------------------------------------------------------------ its claims
\* the animate loops of one kind that have a frame callback outstanding
Loops(kind) == Len(SelectSeq(rafDue \o rafPending, LAMBDA k : k = kind))
InFlight(kind) ==
    {i \in 1..Len(requests) : requests[i].kind = kind /\ requests[i].doneAt = <<>>}
tweenState ==
    <<isMoving, isRotating, moveTween, rotTween, position, rafDue, rafPending,
      requests>>

\* C17: a moveToPosition made while a position tween runs, and a rotateTo made
\* while a rotation tween runs, changes nothing: the tween in flight keeps its
\* start, target and progress, the flag stays set and no completion will be
\* signalled for the call; and there is never more than one animate loop of
\* either kind.
C17_BusyRequestRejected ==
    [][/\ (isMoving /\ lastOp'.op = "moveTo") => UNCHANGED tweenState
       /\ (isRotating /\ lastOp'.op = "rotateTo") => UNCHANGED tweenState
       /\ Loops("move")' = (IF isMoving' THEN 1 ELSE 0)
       /\ Loops("rotate")' = (IF isRotating' THEN 1 ELSE 0)]_vars

C17_Witness ==
    /\ lastOp.op = "moveTo"
    /\ isMoving
    /\ moveTween.elapsed >= 1
    /\ isRotating
    /\ nMotion = 3

\* every accepted request has signalled at most once, and then exactly when
\* its age reached its duration; one that has not is no older than its
\* duration; a flag is set exactly while a request of its kind is in flight
SignalledOnce ==
    /\ \A i \in 1..Len(requests) :
          /\ Len(requests[i].doneAt) <= 1
          /\ requests[i].doneAt # <<>> =>
                requests[i].doneAt[1] = requests[i].duration
          /\ requests[i].doneAt = <<>> => requests[i].age <= requests[i].duration
    /\ isMoving <=> InFlight("move") # {}
    /\ isRotating <=> InFlight("rotate") # {}
    /\ Cardinality(InFlight("move")) <= 1
    /\ Cardinality(InFlight("rotate")) <= 1

\* C18: every accepted moveToPosition or rotateTo (duration above 0) signals
\* completion exactly once, on the frame on which the time elapsed reaches
\* its duration; its flag is set from acceptance until then and clear
\* afterwards, and a request made while the flag is clear is accepted.
C18_CompletionOnceAtEnd ==
    [][/\ SignalledOnce'
       /\ (~isMoving /\ lastOp'.op = "moveTo") =>
            isMoving' /\ Len(requests') = Len(requests) + 1
       /\ (~isRotating /\ lastOp'.op = "rotateTo") =>
            isRotating' /\ Len(requests') = Len(requests) + 1]_vars

C18_Witness ==
    /\ Len(requests) = 3
    /\ \A i \in 1..3 : requests[i].kind = "move" /\ requests[i].doneAt # <<>>
    /\ requests[1].duration # requests[2].duration
    /\ ~isMoving

\* yaw is what the claim says of the requested angle: the angle brought into
\* -180..180 by whole turns, then clamped into -90..45
YawConforms(angle, yaw) ==
    \E n \in -180..180 :
        /\ (angle - n) % 360 = 0
        /\ yaw = (IF n < -90 THEN -90 ELSE IF n > 45 THEN 45 ELSE n)

AnglesConform ==
    \A angle \in -MaxAngle..MaxAngle : YawConforms(angle, limitAngle(angle))

\* C19: for every requested angle, beyond a full turn or not, the yaw of the
\* target orientation is the angle normalised into -180..180 degrees and then
\* clamped into -90..45 degrees.
C19_YawNormalizedAndClamped ==
    /\ AnglesConform
    /\ isRotating =>
          YawConforms(requests[rotTween.cb.exec].arg, rotTween.target)

C19_Witness ==
    /\ isRotating
    /\ requests[rotTween.cb.exec].arg = -540
    /\ rotTween.target = -90
    /\ \E i \in 1..Len(requests) : /\ requests[i].kind = "rotate"
                                    /\ requests[i].arg = 300
                                    /\ requests[i].doneAt # <<>>

\* ======================================================================
\* The ContextDrivenAnimationController on its own: callers evaluate texts,
\* whether a contextual action is in flight or not.
\* ======================================================================

\* a caller evaluates a text that matches the handler of descriptor d
Evaluate(d) ==
    /\ Quiet
    /\ isPerformingContextualAction \/ budget + Cost(d) <= MaxExec
    /\ Becomes(analyzeAndTriggerContextualAction(St, d))
    /\ lastOp' = [op |-> "evaluate",
                  n |-> IF isPerformingContextualAction THEN 0 ELSE d]
    /\ IF isPerformingContextualAction THEN Counters(0, 0, 0, 0)
       ELSE Counters(0, 0, 1, Cost(d))

InitContext == Constructed /\ menu = {}

NextContext ==
    \/ \E d \in ContextDescs : Evaluate(d)
    \/ RunMicrotask
    \/ FireTimer
    \/ RunFrame
    \/ Tick

SpecContext == InitContext /\ [][NextContext]_vars

\* ------------------------------------------------------------ its claims
programState ==
    <<isExecuting, actionQueue, execs, microtasks, timers, rafDue, rafPending,
      isMoving, isRotating, moveTween, rotTween, position, activeAction,
      isTransitioning, isPerformingContextualAction>>

\* the contextual handlers whose finally block has not run: those awaiting
\* their execution and those about to resume
HandlersActive ==
    Cardinality({e \in Live : execs[e].via = "context"})
    + Len(SelectSeq(microtasks, LAMBDA m : m.kind = "handler"))

\* C20: an evaluate call made while the contextual action of an earlier one is
\* in flight does nothing: no handler runs, nothing reaches the scheduler, the
\* flag stays set; so at most one contextual handler is active at a time, and
\* only while the flag is set.
C20_SingleFlight ==
    [][/\ (isPerformingContextualAction /\ lastOp'.op = "evaluate") =>
            UNCHANGED programState
       /\ HandlersActive' <= (IF isPerformingContextualAction' THEN 1 ELSE 0)]_vars

C20_Witness ==
    /\ lastOp = [op |-> "evaluate", n |-> 0]
    /\ isPerformingContextualAction
    /\ nContext = 2
    /\ \E e \in Live : execs[e].via = "context" /\ execs[e].pc = "move"

\* ======================================================================
\* The ContextDrivenAnimationController evaluating one text: the selection
\* among the mappings, the firing draw, the handler and the cleanup.
\* ======================================================================
\* the words of a text
MaxWords == 2

Texts == {t \in SUBSET Words : Cardinality(t) <= MaxWords}

\* the ends of the range of 0.8 + Math.random() * 0.4, in hundredths
JitterSet == {80, 119}

\* The jitter draws of an evaluation of text t.  The draw of a mapping the
\* text gives no point is multiplied by 0; it is fixed to one value.
JitterDraws(t) ==
    {j \in [1..Len(contextMappings) -> JitterSet] :
        \A m \in 1..Len(contextMappings) : score(t, j, m) = 0 => j[m] = 80}

\* values of Math.random() for the firing draw, in hundredths
FiringDraws == {50, 95}

\* jumpCount of performJumpingContext
JumpCounts == {1, 2}

\* the descriptors performPlayfulContext builds: the jump, the paw attack
PlayfulDescs == {14, 3}

\* a caller evaluates the text
Analyze(jumps, playful) ==
    /\ Quiet
    /\ nContext < MaxContext
    /\ Becomes(analyzeAndTrigger(St, text, jitter, firingDraw,
                                 [NoDraw EXCEPT !.jumps = jumps,
                                                !.playful = playful]))
    /\ lastOp' = [op |-> "analyze",
                  n |-> IF isPerformingContextualAction THEN 0
                        ELSE Fired(text, jitter, firingDraw)]
    /\ Counters(0, 0, 1, 0)

InitSelect ==
    /\ Assembled
    /\ menu = {}
    /\ idleBehaviorInterval = MinIdleIntervalMs
    /\ text \in Texts
    /\ jitter \in JitterDraws(text)
    /\ firingDraw \in FiringDraws

NextSelect ==
    \/ \E jumps \in JumpCounts, playful \in PlayfulDescs :
            Analyze(jumps, playful)
    \/ RunMicrotask
    \/ FireTimer
    \/ RunFrame
    \/ Tick

SpecSelect == InitSelect /\ [][NextSelect]_vars

\* ------------------------------------------------------------ its claims
\* a contextual handler has started and its promise has not settled: it
\* awaits an execution, a pause or a rotation, or is about to resume
HandlerInProgress ==
    \/ \E e \in 1..Len(execs) :
            execs[e].pc # "done" /\ execs[e].via \in {"context"} \cup HandlerWaits
    \/ \E i \in 1..Len(microtasks) :
            microtasks[i].kind \in {"handler"} \cup HandlerWaits
    \/ \E i \in 1..Len(timers) : timers[i].kind \in HandlerWaits
    \/ rotTween.cb.kind \in HandlerWaits

\* the job that just ran has set the cleanup timer
CleanupSet ==
    /\ timers # <<>>
    /\ timers[Len(timers)] = Timer("cleanup", 0, ContextCleanupDelayMs)

\* the selector has a method of the name mapping m gives
HandlerExists(m) ==
    contextMappings[m].action \in
        {"performWalkingContext", "performRunningContext",
         "performJumpingContext", "performSleepingContext",
         "performPlayfulContext"}

\* C21: when a mapping fires, the busy flag is set from the start of its
\* handler until the handler's promise settles and at no other time; it is
\* cleared when the handler completes and at once when the handler does not
\* exist (the error is swallowed); clearing the flag sets the cleanup timer,
\* whose callback requests the idle clip and a rotation to face the camera.
C21_BusyFlagBracketsHandler ==
    [][/\ isPerformingContextualAction' <=> HandlerInProgress'
       /\ (lastOp'.op = "analyze" /\ lastOp'.n # 0) =>
            IF HandlerExists(lastOp'.n)
            THEN isPerformingContextualAction'
            ELSE ~isPerformingContextualAction' /\ CleanupSet'
       /\ (isPerformingContextualAction /\ ~isPerformingContextualAction') =>
            CleanupSet'
       /\ lastOp'.op = "cleanup" =>
            lastClip'.name = "idle" /\ isRotating']_vars

\* the mapping without a handler has fired: the flag is clear again and the
\* cleanup is on its way
C21_Witness ==
    /\ lastOp.op = "analyze"
    /\ lastOp.n # 0
    /\ ~HandlerExists(lastOp.n)
    /\ ~isPerformingContextualAction
    /\ CleanupSet

\* what an evaluation may change
selectorState ==
    <<programState, currentState, previousState, elapsed, mood,
      interactionAge, isTalking, idleBehaviorInterval, speed, pose>>

\* the text includes no keyword and no emotion keyword of any mapping
NoTerm(t) == \A term \in Terms : ~includes(t, term)

\* a text that includes no term scores 0 everywhere and selects nothing
NoTermNoMatch ==
    \A t \in Texts : \A j \in JitterDraws(t) :
        NoTerm(t) =>
            /\ \A m \in 1..Len(contextMappings) : score(t, j, m) = 0
            /\ findBestContextMatch(t, j) = 0

\* C22: an evaluation made while the flag is clear, in which no mapping
\* scores above the threshold (as when the text includes no term) or the
\* firing draw of the winning mapping fails, invokes no handler, hands
\* nothing to the scheduler, changes no state and leaves the flag clear.
C22_NoFireNoEffect ==
    [][(/\ lastOp'.op = "analyze"
        /\ ~isPerformingContextualAction
        /\ \/ \A m \in 1..Len(contextMappings) :
                    score(text, jitter, m) <= ScoreThreshold
           \/ firingDraw >=
                contextMappings[findBestContextMatch(text, jitter)].weight * 10)
       => /\ UNCHANGED selectorState
          /\ ~isPerformingContextualAction'
          /\ NoTermNoMatch]_vars

\* a mapping was selected and its firing draw failed
C22_Witness ==
    /\ lastOp = [op |-> "analyze", n |-> 0]
    /\ findBestContextMatch(text, jitter) # 0
    /\ firingDraw >= contextMappings[findBestContextMatch(text, jitter)].weight * 10
    /\ execs = <<>>
    /\ ~isPerformingContextualAction

\* C23: for every text and every choice of the jitter factors, the mapping
\* selected has the highest score among the scores above 1.5, the earliest
\* mapping of the configuration among those with that score; none is
\* selected when no score is above 1.5.
C23_SelectsHighestScore ==
    LET best == findBestContextMatch(text, jitter)
        Above == {m \in 1..Len(contextMappings) :
                    score(text, jitter, m) > ScoreThreshold}
    IN  IF Above = {} THEN best = 0
        ELSE /\ best \in Above
             /\ \A m \in Above :
                    /\ score(text, jitter, m) <= score(text, jitter, best)
                    /\ score(text, jitter, m) = score(text, jitter, best)
                        => best <= m

\* two mappings tie for the highest score and the earlier one has fired
C23_Witness ==
    /\ lastOp = [op |-> "analyze", n |-> 1]
    /\ score(text, jitter, 1) = score(text, jitter, 2)
    /\ score(text, jitter, 1) > ScoreThreshold

\* ======================================================================
\* The BehaviorStateMachine in the running application: the render loop
\* calls update in every frame, the idle behaviours and their delayed
\* callbacks run, the speech/text pipeline and the context selector change
\* the state.
\* ======================================================================
\* triggers of the speech/text pipeline in a behaviour
MaxEvent == 1
\* idle behaviours picked in a behaviour
MaxIdle == 2
\* the time units after which elapsed and stateAge stay put, above every
\* threshold elapsed is compared with
MaxElapsed == 41
\* the time units after which interactionAge stays put
MaxInteractionAge == 12

\* an id setInterval returns: a small positive integer
TimerIds == {3}

\* 3000 + Math.random() * 4000, in time units
IntervalPeriods == {Units(MinIntervalPeriodMs)}

\* 10000 + Math.random() * 10000
IdleIntervals ==
    {MinIdleIntervalMs, MinIdleIntervalMs + IdleIntervalSpanMs - 1}

\* milliseconds queryGemini takes
ReplyLatencies == {500, 4000}

\* how the utterance of speakText ends, and after how many milliseconds
Utterances ==
    {[kind |-> "utterOnEnd", ms |-> 2500],
     [kind |-> "utterOnError", ms |-> 500]}

\* the clip of the action button 'walk'
UiClips == {"walk"}

\* milliseconds until recognition.onend
RecognitionMs == {1000}

\* the texts the pipeline hands to the selector: one without a term, one
\* that selects the sleeping mapping
BehaviorTexts == {{"hello"}, {"nap"}}

\* the behaviours a random pick yields here: one that moves a bone only,
\* one that walks, one that plays a clip once and looks curious, one that
\* changes the mood, one that moves the model, and the one defined nowhere
PickedBehaviors ==
    {"performHeadTilt", "performShortWalk", "performPawGrooming",
     "performYawn", "performPlayfulPounce", "performQuickJump"}

\* the draws of a job that may start an idle behaviour
BehaviorDraws ==
    {Draw(o, id, period, interval, b, 1, 3) :
        o \in BOOLEAN, id \in TimerIds, period \in IntervalPeriods,
        interval \in IdleIntervals, b \in PickedBehaviors}

\* the draws of a job that may enter idle or sleep
EntryDraws ==
    {Draw(o, id, period, MinIdleIntervalMs, "performHeadTilt", 1, 3) :
        o \in BOOLEAN, id \in TimerIds, period \in IntervalPeriods}

\* the variables the jobs of the application leave alone
idleVars ==
    <<dropped, cancelled, menu, nSchedule, nCancel, nContext, budget,
      text, jitter, firingDraw, mixerVars, motionVars>>

Min(a, b) == IF a < b THEN a ELSE b

\* handleIdleState calls performRandomIdleBehavior
Triggers(s) ==
    /\ s.currentState = "idle"
    /\ ~(timeSinceInteraction(s) > SleepTransitionMs /\ ~s.isTalking)
    /\ s.elapsed * TimeUnit > s.idleBehaviorInterval

\* performRandomIdleBehavior picks a behaviour
Picks(s) == MayBehave(s)

\* animate(): the frame of the render loop calls stateMachine.update(); a
\* random pick comes from draws and is counted if counted says so
FrameUpdate(draws, counted) ==
    /\ Quiet
    /\ ~updated
    /\ \E r \in (IF Triggers(St) THEN draws ELSE EntryDraws) :
        LET starts == counted /\ Triggers(St) /\ Picks(St)
        IN  /\ starts => nIdle < MaxIdle
            /\ Becomes(update(St, r))
            /\ nIdle' = nIdle + (IF starts THEN 1 ELSE 0)
    /\ lastOp' = [op |-> "update", n |-> IF Triggers(St) THEN 1 ELSE 0]
    /\ updated' = TRUE
    /\ UNCHANGED <<idleVars, nEvent>>

Update == FrameUpdate(BehaviorDraws, TRUE)

\* the delayed callbacks of the application
BehaviorTimers ==
    {"toIdle", "yawnEnd", "interval", "orient", "reply", "evaluate",
     "uiSpeak", "utterOnEnd", "utterOnError", "recognitionOnEnd"}

\* speakText(text) and synthesis.speak(utter) with the utterance u
speak(s, u, r) ==
    [speakText(s, r) EXCEPT !.timers = Append(@, Timer(u.kind, 0, u.ms))]

\* performActionFromUI(actionName) for a button whose clip loops
performActionFromUI(s, clip, r) ==
    registerInteraction(
        [playAnimation(s, clip, UiFadeMs, TRUE, r) EXCEPT
            !.timers = Append(@, Timer("uiSpeak", 0, UiSpeakDelayMs))], r)

\* the reply of queryGemini arrives in processUserInput: the cat speaks it,
\* the evaluation of the text is set for later, finishProcessing runs
reply(s, u, r) ==
    finishProcessing(
        [speak(s, u, r) EXCEPT
            !.timers = Append(@, Timer("evaluate", 0, EvaluateDelayMs))], r)

\* the callback of a due timer tm of the application, on the state s the
\* timer is removed from
behaviorCallback(s, tm, u, r) ==
    CASE tm.kind = "toIdle" -> talkingCatChangeState(s, "idle", r)
      [] tm.kind = "yawnEnd" ->
            talkingCatChangeState([s EXCEPT !.mood = "neutral"], "idle", r)
      [] tm.kind = "interval" ->
            intervalCallback(
                [s EXCEPT !.timers = Append(@, [tm EXCEPT !.left = tm.exec])], r)
      [] tm.kind = "orient" -> performRandomOrientation(s)
      [] tm.kind = "reply" -> reply(s, u, r)
      [] tm.kind = "evaluate" ->
            analyzeAndTrigger(s, text, jitter, firingDraw, r)
      [] tm.kind = "uiSpeak" -> speak(s, u, r)
      [] tm.kind = "utterOnEnd" -> utterOnEnd(s, r)
      [] tm.kind = "utterOnError" -> utterOnError(s, r)
      [] tm.kind = "recognitionOnEnd" -> leaveListening(s, r)

\* a delayed callback of the application that is due runs
BehaviorTimer ==
    /\ microtasks = <<>>
    /\ \E i \in 1..Len(timers) :
        /\ timers[i].left = 0
        /\ timers[i].kind \in BehaviorTimers
        /\ LET tm == timers[i]
               s == [St EXCEPT !.timers = RemoveAt(@, i)]
           IN  /\ \E r \in (IF tm.kind = "interval" THEN BehaviorDraws
                             ELSE EntryDraws),
                     u \in (IF tm.kind \in {"reply", "uiSpeak"} THEN Utterances
                            ELSE {CHOOSE v \in Utterances : TRUE}) :
                    LET starts == /\ tm.kind = "interval"
                                  /\ s.currentState = "idle"
                                  /\ ~s.isTalking
                                  /\ Picks(s)
                    IN  /\ starts => nIdle < MaxIdle
                        /\ nIdle' = nIdle + (IF starts THEN 1 ELSE 0)
                        /\ Becomes(behaviorCallback(s, tm, u, r))
               /\ lastOp' = [op |-> tm.kind, n |-> 0]
    /\ UNCHANGED <<idleVars, nEvent, updated>>

\* a trigger of the pipeline from outside
External(op, s) ==
    /\ Quiet
    /\ nEvent < MaxEvent
    /\ Becomes(s)
    /\ lastOp' = [op |-> op, n |-> 0]
    /\ nEvent' = nEvent + 1
    /\ UNCHANGED <<idleVars, nIdle, updated>>

\* the user sends a text
ProcessUserInput ==
    \E ms \in ReplyLatencies :
        External("processUserInput",
                 [processUserInput(St, NoDraw) EXCEPT
                    !.timers = Append(@, Timer("reply", 0, ms))])

\* init(): the welcome message arrives and is spoken
Welcome ==
    \E u \in Utterances, r \in EntryDraws :
        External("welcome", speak(St, u, r))

\* the user clicks an action button: performActionFromUI(actionName)
PerformActionFromUI ==
    \E clip \in UiClips, r \in EntryDraws :
        External("performActionFromUI", performActionFromUI(St, clip, r))

\* speech recognition starts
RecognitionOnStart ==
    \E ms \in RecognitionMs, r \in EntryDraws :
        External("recognitionOnStart",
                 [recognitionOnStart(St, r) EXCEPT
                    !.timers = Append(@, Timer("recognitionOnEnd", 0, ms))])

\* one unit of time passes and the next frame begins; the age of the last
\* interaction is counted up to maxAge
TimePasses(maxAge) ==
    /\ Quiet
    /\ updated
    /\ \A i \in 1..Len(timers) : timers[i].left > 0
    /\ \/ timers # <<>> \/ rafPending # <<>>
       \/ elapsed < MaxElapsed \/ interactionAge < maxAge
    /\ Becomes([passTime(St) EXCEPT
                    !.elapsed = Min(@ + 1, MaxElapsed),
                    !.stateAge = Min(@ + 1, MaxElapsed),
                    !.interactionAge = Min(@ + 1, maxAge)])
    /\ lastOp' = [op |-> "tick", n |-> 0]
    /\ updated' = FALSE
    /\ UNCHANGED <<idleVars, nEvent, nIdle>>

BehaviorTick == TimePasses(MaxInteractionAge)

\* the application after initAnimationSystem, which plays the idle clip
InitBehavior ==
    /\ Wired
    /\ menu = {}
    /\ activeAction = "idle"
    /\ isTransitioning = TRUE
    /\ timers = <<Timer("transition", 0, DefaultFadeMs)>>
    /\ idleBehaviorInterval \in IdleIntervals
    /\ text \in BehaviorTexts
    /\ jitter \in {j \in JitterDraws(text) :
                        \A m \in 1..Len(contextMappings) :
                            score(text, j, m) # 0 => j[m] = 119}
    /\ firingDraw = 50

NextBehavior ==
    \/ Update
    \/ BehaviorTimer
    \/ Welcome
    \/ ProcessUserInput
    \/ PerformActionFromUI
    \/ RecognitionOnStart
    \/ BehaviorTick
    \/ RunMicrotask
    \/ FireTimer
    \/ RunFrame

SpecBehavior == InitBehavior /\ [][NextBehavior]_vars

\* ======================================================================
\* The application left alone for more than a minute: the frames of the
\* render loop, random picks among the behaviours that leave the state
\* and the timers alone.
\* ======================================================================
\* the time units after which interactionAge stays put here, above the
\* inactivity threshold
MaxLull == 122

\* the draws of a job that picks a bone-only behaviour or the one defined
\* nowhere
LullDraws ==
    {r \in BehaviorDraws :
        /\ ~r.orient
        /\ r.behavior \in {"performHeadTilt", "performQuickJump"}}

LullUpdate == FrameUpdate(LullDraws, FALSE)

LullTick == TimePasses(MaxLull)

NextLull ==
    \/ LullUpdate
    \/ LullTick
    \/ FireTimer

SpecLull == InitBehavior /\ [][NextLull]_vars

\* ---------------------------------------------------------------- C24
\* C24, as the specification states it: while the state is idle and the
\* character is not talking, an update at which more than the inactivity
\* threshold has passed since the last registered interaction changes the
\* state to sleep.
C24_InactivityBringsSleep ==
    [][(/\ lastOp'.op = "update"
        /\ updated'
        /\ ~updated
        /\ currentState = "idle"
        /\ ~isTalking
        /\ interactionAge * TimeUnit > SleepTransitionMs)
       => currentState' = "sleep"]_vars

\* the state in which the code departs from C24: more than 60000 ms after
\* the last interaction the state machine has been updated and is idle
C24_IdleAfterLongInactivity ==
    /\ lastOp.op = "update"
    /\ updated
    /\ currentState = "idle"
    /\ ~isTalking
    /\ interactionAge * TimeUnit > SleepTransitionMs

\* what the code does instead, in every state reached: the difference
\* handleIdleState compares with the threshold is negative, since
\* lastInteractionTime is a Date.now() value and the update reads
\* performance.now()
C24_DifferenceNegative == timeSinceInteraction(St) < 0

\* ---------------------------------------------------------------- C25
\* C25, as the specification states it: while the state is sleep, an
\* update changes the state only if an interaction was registered within
\* the 5 seconds before that update.
C25_WakesOnlyOnInteraction ==
    [][(/\ lastOp'.op = "update"
        /\ currentState = "sleep"
        /\ currentState' # "sleep")
       => interactionAge * TimeUnit < WakeWindowMs]_vars

\* what the code does instead: every update that finds the state sleep
\* exits sleep mode and changes the state to playful
C25_EveryUpdateWakes ==
    [][(lastOp'.op = "update" /\ currentState = "sleep")
       => /\ currentState' = "playful"
          /\ pose' = "upright"
          /\ mood' = "happy"]_vars

\* the state is sleep and the last interaction is 5 seconds old or older
C25_AsleepUntouched ==
    /\ currentState = "sleep"
    /\ interactionAge * TimeUnit >= WakeWindowMs
    /\ ~updated

C26_TalkingKept ==
    /\ lastOp.op = "update"
    /\ currentState = "talking"
    /\ isTalking
    /\ stateAge > 0

\* an update has found the state curious and left it
C26_CuriousKept ==
    /\ lastOp.op = "update"
    /\ currentState = "curious"
    /\ stateAge > 0

\* ---------------------------------------------------------------- C27
\* C27, as the specification states it: in every reachable state the
\* interval of the idle behaviours is a duration between 10000 and
\* 20000 ms.
C27_IntervalInRange ==
    /\ idleBehaviorInterval >= MinIdleIntervalMs
    /\ idleBehaviorInterval <= MinIdleIntervalMs + IdleIntervalSpanMs

\* C27 further states that an idle behaviour is picked only by the state
\* machine's update, once the interval has passed since idle was entered
\* or since the previous pick.
C27_PickedOnlyOnTime ==
    [][nIdle' # nIdle =>
        /\ lastOp'.op = "update"
        /\ elapsed * TimeUnit > MinIdleIntervalMs]_vars

\* what the code keeps of C27: an update that finds the interval passed
\* draws it anew and restarts the idle timer, unless the behaviour picked
\* is the one defined nowhere: then the call throws and nothing changes
C27_TriggerRerollsUnlessThrown ==
    [][(lastOp'.op = "update" /\ lastOp'.n = 1)
       => \/ /\ idleBehaviorInterval' \in IdleIntervals
             /\ elapsed' = 0
          \/ UNCHANGED <<idleBehaviorInterval, elapsed, currentState,
                         timers, activeAction, mood>>]_vars

\* an update has found the interval passed and has changed nothing
C27_TriggerThrown ==
    /\ lastOp = [op |-> "update", n |-> 1]
    /\ currentState = "idle"
    /\ elapsed * TimeUnit > idleBehaviorInterval

\* ---------------------------------------------------------------- C28
\* the jobs that are triggers of the speech/text pipeline
PipelineJobs ==
    {"processUserInput", "reply", "recognitionOnStart", "recognitionOnEnd",
     "welcome", "performActionFromUI", "uiSpeak", "utterOnEnd",
     "utterOnError"}

\* C28, as the specification states it: once the state is processing or
\* listening, only a trigger of the speech/text pipeline changes it; no
\* update and no delayed callback does, callbacks started earlier by idle
\* behaviours included.
C28_OnlyPipelineLeaves ==
    [][(/\ currentState \in {"processing", "listening"}
        /\ currentState' # currentState)
       => lastOp'.op \in PipelineJobs]_vars

\* what the code keeps of C28: no update changes processing or listening
C28_UpdateKeeps ==
    [][(/\ currentState \in {"processing", "listening"}
        /\ lastOp'.op = "update")
       => currentState' = currentState]_vars

\* the delayed callback of an idle behaviour has just changed processing
\* or listening to idle
C28_LeftByBehaviorCallback ==
    /\ lastOp.op \in {"toIdle", "yawnEnd"}
    /\ previousState \in {"processing", "listening"}
    /\ currentState = "idle"
    /\ stateAge = 0

\* ---------------------------------------------------------------- C29
\* the states onStateEnter and update know
BehaviorStates ==
    {"idle", "playful", "curious", "talking", "sleep", "processing",
     "listening"}

\* C29: in every reachable state the current behaviour state is one of
\* idle, playful, curious, talking, sleep, processing, listening, and so is
\* the previous one.
C29_StateIsOneOfSeven ==
    /\ currentState \in BehaviorStates
    /\ previousState \in BehaviorStates

\* a contextual action has put the cat to sleep and the state has changed
\* again since
C29_Witness ==
    /\ previousState = "sleep"
    /\ currentState \in BehaviorStates \ {"sleep"}

\* ---------------------------------------------------------------- C30
\* the mood onStateEnter sets
EntryMood ==
    [idle |-> "neutral", playful |-> "happy", curious |-> "curious",
     talking |-> "engaged", sleep |-> "sleepy", processing |-> "engaged",
     listening |-> "curious"]

\* C30: after every job that changes the state, the mood is the entry mood
\* of the state entered; a job that enters idle has requested the idle
\* clip last, a job that enters sleep has requested the idle clip of the
\* sleep pose and lies down, and a job that enters processing or listening
\* requests no clip and leaves the active action as it is.
C30_EntryMoodAndClip ==
    [][currentState' # currentState =>
        /\ mood' = EntryMood[currentState']
        /\ currentState' = "idle" => lastClip'.name = "idle"
        /\ currentState' = "sleep" =>
              /\ lastClip'.name = "idle"
              /\ pose' = "lying"
              /\ activeAction' # "none" => speed' = SleepSpeed
        /\ currentState' \in {"processing", "listening"} =>
              /\ lastClip' = NoClip
              /\ activeAction' = activeAction]_vars

\* the sleep state has just been entered and the cat lies down, slowed
C30_Witness ==
    /\ currentState = "sleep"
    /\ stateAge = 0
    /\ mood = "sleepy"
    /\ pose = "lying"
    /\ speed = SleepSpeed
    /\ lastOp.op = "evaluate"

\* processing has just been entered from a state with another mood, the
\* walk clip still active
C30_ProcessingEntered ==
    /\ currentState = "processing"
    /\ stateAge = 0
    /\ mood = "engaged"
    /\ activeAction = "walk"
    /\ lastOp.op = "processUserInput"

\* ---------------------------------------------------------------- C37
\* C37, as the specification states it: whenever the talking flag is set,
\* the behaviour state is talking.
C37_TalkingFlagMeansTalking == isTalking => currentState = "talking"

\* the reply has been spoken and finishProcessing has made the state idle
\* in the same job, the utterance still going on
C37_IdleWhileSpeaking ==
    /\ lastOp.op = "reply"
    /\ isTalking
    /\ currentState = "idle"
    /\ previousState = "talking"

\* what the code keeps of C37: speakText leaves the state talking with
\* the flag set when nothing follows it in its job
C37_SpeakTextAlone ==
    [][lastOp'.op \in {"welcome", "uiSpeak"}
       => isTalking' /\ currentState' = "talking"]_vars

\* ---------------------------------------------------------------- C38
\* C38: in every reachable state, changeState called with the current
\* state changes nothing at all, and called with another state it makes
\* that state current, records the replaced state as previous, restarts
\* the entry time and runs the entry action of the new state.
C38_ChangeStateFrame ==
    \A n \in BehaviorStates, r \in EntryDraws :
        LET t == changeState(St, n, r)
        IN  IF n = currentState
            THEN t = St
            ELSE /\ t.currentState = n
                 /\ t.previousState = currentState
                 /\ t.elapsed = 0
                 /\ t.stateAge = 0
                 /\ t.mood = EntryMood[n]

\* utter.onerror has called changeState('idle') with the state idle since
\* an earlier job: the entry time and the previous state are as they were
C38_Witness ==
    /\ lastOp.op = "utterOnError"
    /\ currentState = "idle"
    /\ previousState = "talking"
    /\ stateAge > 0
    /\ lastClip = NoClip

\* ---------------------------------------------------------------- C39
\* the periodic timers of startEnhancedIdleBehaviors that are active
IdleIntervalTimers == {i \in 1..Len(timers) : timers[i].kind = "interval"}

\* C39, as the specification states it: at most one periodic
\* idle-behaviour timer is active at any time, and none while the state is
\* not idle.
C39_AtMostOneIdleTimer ==
    /\ Cardinality(IdleIntervalTimers) <= 1
    /\ currentState # "idle" => IdleIntervalTimers = {}

\* two periodic timers are active at once
C39_TwoIdleTimers == Cardinality(IdleIntervalTimers) >= 2

\* what the code does instead: no job ever stops a periodic timer
C39_NeverStopped ==
    [][Cardinality(IdleIntervalTimers') >= Cardinality(IdleIntervalTimers)]_vars

\* ============================================== scheduler: queue and flag
\* C35: between two steps of the program, a scheduler that is not busy has an
\* empty queue.
C35_IdleMeansEmptyQueue ==
    ~isExecuting => actionQueue = <<>>

\* the flag is clear after the completion of an action that came from the
\* queue
C35_Witness ==
    /\ lastOp.op = "settle"
    /\ ~isExecuting
    /\ execs[lastOp.n].via = "queue"
    /\ execs[lastOp.n].pc = "done"

\* the places of queue q that hold the descriptor of arrival n
Queued(q, n) == {i \in 1..Len(q) : q[i].arrival = n}
\* the executions in x of the descriptor of arrival n
Runs(x, n) == {e \in 1..Len(x) : x[e].arrival = n}

InitFair == Constructed /\ menu \in {{3}, {4}}

SpecFair ==
    /\ InitFair
    /\ [][Next]_vars
    /\ WF_vars(RunMicrotask)
    /\ WF_vars(FireTimer)
    /\ WF_vars(RunFrame)
    /\ WF_vars(Tick)

\* C34 (as claimed): every action that has begun execution completes in the
\* end, also a locomotion whose rotate or move stage was requested while the
\* motion controller was rotating or moving for another component.
C34_BegunCompletes ==
    (Live # {}) ~> (Live = {})

\* nothing is left that could run: no continuation, no timer, no frame request
Still ==
    /\ microtasks = <<>>
    /\ timers = <<>>
    /\ rafDue = <<>>
    /\ rafPending = <<>>

\* C34, the state it rules out: a locomotion whose callback the motion
\* controller dropped waits for ever, with the busy flag set and a descriptor
\* in the queue behind it.
C34_StuckLocomotion ==
    /\ Still
    /\ isExecuting
    /\ actionQueue # <<>>
    /\ \E e \in ExecIds : execs[e].pc = "orphan" /\ execs[e].parent = 0

\* C34, what the code does guarantee: an execution that has begun and is not
\* waiting on a dropped callback always has something pending that will run.
C34_OnlyDroppedCallbackStalls ==
    Still => \A e \in Live : \E a \in ExecIds : execs[a].pc = "orphan"

\* ================================================= scheduler: back to idle
\* fadeToIdle was called in the last step (no descriptor names the idle clip)
IdleRequested == lastClip.name = "idle"

\* C36 (as claimed): every return-to-idle request of the core (cancelAll, the
\* idle-restore stage of a locomotion, the selector's cleanup) is followed,
\* at once or later, by a state in which the idle clip is the active clip.
C36_IdleRequestHonoured ==
    IdleRequested ~> (activeAction = "idle")

\* C36, the state it rules out: cancelAll asked for the idle clip during a
\* cross-fade, another clip stays active and nothing is left to run.
C36_RequestLost ==
    /\ Still
    /\ Live = {}
    /\ cancelled # {}
    /\ activeAction \notin {"idle", "none"}

\* C36, what the code does guarantee: a request made while no cross-fade is
\* in progress makes the idle clip the active clip in the same step, and a
\* request made during a cross-fade changes nothing in the manager.
C36_HonouredUnlessFading ==
    [][IdleRequested' =>
          IF isTransitioning
          THEN /\ lastClip'.result = "rejected"
               /\ activeAction' = activeAction
          ELSE /\ lastClip'.result \in {"accepted", "same"}
               /\ activeAction' = "idle"]_vars

\* ======================================================================
\* The ProceduralAnimationLayer on its own: the render loop hands it the
\* frame's delta after the mixer wrote the clip's pose, and the state machine
\* changes the mood it reads.
\* ======================================================================

\* ---------------------------------------------------------------- bounds
\* frames drawn in a behaviour
MaxTicks == 3
\* state changes requested in a behaviour
MaxChange == 1

\* ------------------------------------------------------------ arithmetic
\* Angles are in milliradians and time in milliseconds.  A frame's delta is a
\* whole number of DeltaUnit.  An intensity is a whole number of steps of
\* which Tenth make 0.1, so that MaxTicks interpolations in a row are exact.
DeltaUnit == 125
Tenth == 16 ^ MaxTicks
Pi == 3142

\* Math.sin and Math.cos, in thousandths, of an angle that is not negative
\* (Bhaskara's rational approximation, exact at 0, pi / 2 and pi)
SinMilli(x) ==
    LET y == x % (2 * Pi)
        h == IF y > Pi THEN y - Pi ELSE y
        p == h * (Pi - h)
        v == (160 * p) \div ((5 * Pi * Pi - 4 * p) \div 100)
    IN  IF y > Pi THEN 0 - v ELSE v

CosMilli(x) == SinMilli(x + Pi \div 2)

\* the angle trig * intensity, trig in thousandths
Swing(trig, intensity) ==
    (trig * (intensity \div (Tenth \div 16))) \div 160

\* lerp(start, end, factor), factor in sixteenths
lerp(start, end, factor) ==
    LET d == end - start
    IN  start + (d \div 16) * factor + ((d % 16) * factor) \div 16

\* ------------------------------------------------------ program constants
BaseIntensity == 2 * Tenth
TailFlickMs == 150
TailFlickSwing == 400
EarTwitchMs == 120
EarTwitchSwing == 200
EarSwing == 50
BreathStep == 50
SleepBreathStep == 15
BreathMilli == 10
SleepBreathMilli == 20
BobMilli == 80
BobSpeed == 8
\* catModel.scale, in ten-thousandths
ModelScale == 10000

Euler(x, y, z) == [x |-> x, y |-> y, z |-> z]
BoneKeys == {"head", "tail", "leftEar", "rightEar"}

\* the pose of the bones in the model file, and the pose a clip gives them
RestPose ==
    [head |-> Euler(100, 0, 0), tail |-> Euler(0, 200, 50),
     leftEar |-> Euler(30, 0, 10), rightEar |-> Euler(30, 0, -10)]
ClipPose ==
    [head |-> Euler(250, 40, 0), tail |-> Euler(60, 500, 0),
     leftEar |-> Euler(90, 0, 10), rightEar |-> Euler(0, 20, -10)]

\* the tail mapping of applyTailMotion for mood m: target intensity, the
\* interpolation factor of one DeltaUnit in sixteenths, speed in tenths
TailMapping(m, base) ==
    CASE m = "happy" -> [target |-> 4 * Tenth, rate |-> 4, speed |-> 20]
      [] m = "excited" -> [target |-> 6 * Tenth, rate |-> 6, speed |-> 30]
      [] m = "curious" -> [target |-> 3 * Tenth, rate |-> 3, speed |-> 15]
      [] m = "sleepy" -> [target |-> Tenth, rate |-> 2, speed |-> 5]
      [] OTHER -> [target |-> base, rate |-> 2, speed |-> 10]

\* speedMap[mood] || 1.0 of applyMoodInfluences, in percent
SpeedMap(m) ==
    CASE m = "excited" -> 130
      [] m = "sleepy" -> 70
      [] m = "curious" -> 110
      [] m = "happy" -> 110
      [] OTHER -> 100

\* ----------------------------------------------- ProceduralAnimationLayer
\* new ProceduralAnimationLayer(talkingCat); r holds the phases the
\* constructor draws, found the bones the loader found by name.  bones and
\* scale are the cat's, kept here with the layer that writes them.
ProceduralAnimationLayer(r, found) ==
    [made |-> TRUE, time |-> 0,
     boneBaselines |-> [k \in {} |-> Euler(0, 0, 0)],
     originalModelScale |-> 0,
     tail |-> [baseIntensity |-> BaseIntensity,
               currentIntensity |-> BaseIntensity,
               phase |-> r.tail, speed |-> 10],
     ears |-> [leftPhase |-> r.left, rightPhase |-> r.right],
     breathing |-> [phase |-> 0],
     bones |-> [k \in found |-> RestPose[k]],
     scale |-> [x |-> ModelScale, y |-> ModelScale],
     gestures |-> <<>>]

\* this.boneBaselines.get(key) || new THREE.Euler()
Baseline(L, key) ==
    IF key \in DOMAIN L.boneBaselines THEN L.boneBaselines[key]
    ELSE Euler(0, 0, 0)

\* resetBaselines()
resetBaselines(L) ==
    [L EXCEPT !.bones = [k \in DOMAIN L.bones |->
                            IF k \in DOMAIN L.boneBaselines
                            THEN L.boneBaselines[k] ELSE L.bones[k]]]

\* cacheBaselines()
cacheBaselines(L) ==
    [L EXCEPT !.boneBaselines =
        [k \in DOMAIN L.boneBaselines \cup DOMAIN L.bones |->
            IF k \in DOMAIN L.bones THEN L.bones[k] ELSE L.boneBaselines[k]]]

\* a micro-gesture in flight: the closure of animateFlick or animateTwitch
Gesture(key, axis, swing, ms, start, base) ==
    [key |-> key, axis |-> axis, swing |-> swing, ms |-> ms,
     start |-> start, base |-> base, due |-> FALSE]

\* the rotation of bone g.key after one call of animateFlick / animateTwitch
\* at time now
Flicked(L, g, now) ==
    LET el == now - g.start
        angle == IF el >= g.ms THEN Pi ELSE (el * Pi) \div g.ms
        off == (SinMilli(angle) * g.swing) \div 1000
    IN  IF g.key \notin DOMAIN L.bones THEN L
        ELSE IF g.axis = "y"
        THEN [L EXCEPT !.bones[g.key].y = g.base.y + off]
        ELSE [L EXCEPT !.bones[g.key].x = g.base.x + off]

\* performTailFlick(): the first animateFlick call runs inside it
performTailFlick(L) ==
    IF "tail" \notin DOMAIN L.bones THEN L
    ELSE LET g == Gesture("tail", "y", TailFlickSwing, TailFlickMs, L.time,
                          Baseline(L, "tail"))
         IN  [Flicked(L, g, L.time) EXCEPT !.gestures = Append(@, g)]

\* performEarTwitch(earBone, baselineKey)
performEarTwitch(L, key) ==
    LET g == Gesture(key, "x", EarTwitchSwing, EarTwitchMs, L.time,
                     Baseline(L, key))
    IN  [Flicked(L, g, L.time) EXCEPT !.gestures = Append(@, g)]

\* applyTailMotion(delta); c holds what the frame reads from the cat and the
\* draws of the frame
applyTailMotion(L, c) ==
    IF "tail" \notin DOMAIN L.bones THEN L
    ELSE LET m == TailMapping(c.mood, L.tail.baseIntensity)
             i == lerp(L.tail.currentIntensity, m.target, c.delta * m.rate)
             ph == L.tail.phase + (c.delta * DeltaUnit * m.speed) \div 10
             base == Baseline(L, "tail")
             L1 == [L EXCEPT
                      !.tail.currentIntensity = i,
                      !.tail.speed = m.speed,
                      !.tail.phase = ph,
                      !.bones["tail"].y = base.y + Swing(SinMilli(ph), i),
                      !.bones["tail"].z =
                          base.z + Swing(CosMilli((ph * 7) \div 10), i) \div 2]
         IN  IF c.gesture = "flick" THEN performTailFlick(L1) ELSE L1

\* applyEarMotions(delta)
applyEarMotions(L, c) ==
    IF ~({"leftEar", "rightEar"} \subseteq DOMAIN L.bones) THEN L
    ELSE LET L1 == CASE c.gesture = "twitchLeft" ->
                            performEarTwitch(L, "leftEar")
                      [] c.gesture = "twitchRight" ->
                            performEarTwitch(L, "rightEar")
                      [] OTHER -> L
             lp == L.ears.leftPhase + c.delta * DeltaUnit * 2
             rp == L.ears.rightPhase + (c.delta * DeltaUnit * 17) \div 10
         IN  IF c.mood # "curious" THEN L1
             ELSE [L1 EXCEPT
                     !.ears.leftPhase = lp,
                     !.ears.rightPhase = rp,
                     !.bones["leftEar"].x =
                         Baseline(L, "leftEar").x
                             + (SinMilli(lp) * EarSwing) \div 1000,
                     !.bones["rightEar"].x =
                         Baseline(L, "rightEar").x
                             + (SinMilli(rp) * EarSwing) \div 1000]

\* applyBreathing(delta)
applyBreathing(L, c) ==
    LET asleep == c.state = "sleep"
        ph == L.breathing.phase
                  + (IF asleep THEN SleepBreathStep ELSE BreathStep)
        original == IF L.originalModelScale = 0 THEN L.scale.x
                    ELSE L.originalModelScale
        depth == IF asleep THEN SleepBreathMilli ELSE BreathMilli
    IN  [L EXCEPT !.breathing.phase = ph,
                  !.originalModelScale = original,
                  !.scale.y = original
                      + (original * ((SinMilli(ph) * depth) \div 1000))
                            \div 1000]

\* applyTalkingBehavior(delta)
applyTalkingBehavior(L, c) ==
    IF ~c.isTalking \/ "head" \notin DOMAIN L.bones THEN L
    ELSE [L EXCEPT !.bones["head"].x =
              Baseline(L, "head").x
                  + (SinMilli(L.time * BobSpeed)
                         * ((c.talkingIntensity * BobMilli) \div 1000))
                        \div 1000]

\* update(delta) without the restoring of the baselines
layerUpdateNoReset(L, c) ==
    applyTalkingBehavior(
        applyBreathing(
            applyEarMotions(
                applyTailMotion(
                    [L EXCEPT !.time = @ + c.delta * DeltaUnit], c),
                c),
            c),
        c)

\* ProceduralAnimationLayer.update(delta); applyMoodInfluences, which writes
\* to the animation manager alone, is in the step
layerUpdate(L, c) ==
    applyTalkingBehavior(
        applyBreathing(
            applyEarMotions(
                applyTailMotion(
                    resetBaselines([L EXCEPT !.time = @ + c.delta * DeltaUnit]),
                    c),
                c),
            c),
        c)

\* ---------------------------------------------------------------- inputs
\* the frame lengths of the render loop, in DeltaUnit: a frame of 125 ms, and
\* frames after the page was hidden for 1 s, 1.5 s and 2.5 s
Deltas == {1, 8, 12, 20}
\* what the mixer wrote to the bones in the frame: nothing, or a clip's pose
Poses == {"none", "clip"}
\* the micro-gesture the frame's draws start
GestureDraws == {"none", "flick", "twitchLeft"}
\* the phases the constructor draws
PhaseDraws ==
    {[tail |-> 0, left |-> 0, right |-> 0],
     [tail |-> 1571, left |-> 800, right |-> 4000]}
\* the bones the loader finds in the model file
BoneSets == {BoneKeys, {"head", "tail"}}
\* the states whose entry changes the mood
MoodStates == {"sleep", "playful", "curious"}
\* this.talkingIntensity, in thousandths
TalkingIntensity == 500

\* what update reads from the cat in a frame, with the frame's draws
FrameInput(delta, gesture) ==
    [mood |-> mood, state |-> currentState, isTalking |-> isTalking,
     talkingIntensity |-> TalkingIntensity, delta |-> delta,
     gesture |-> gesture]

\* the bones after mixer.update
Posed(L, p) ==
    IF p = "none" THEN L
    ELSE [L EXCEPT !.bones = [k \in DOMAIN L.bones |-> ClipPose[k]]]

\* ------------------------------------------------------------------ steps
layerRest == <<schedulerVars, mixerVars, requests, nMotion>>

\* initializeLayeredAnimationSystem: the layer is made and caches the
\* baselines
InitializeLayer(r, found) ==
    /\ ~layer.made
    /\ layer' = cacheBaselines(ProceduralAnimationLayer(r, found))
    /\ Becomes(St)
    /\ lastOp' = [op |-> "initLayer", n |-> 0]
    /\ UNCHANGED <<nFrame, nChange, layerRest>>

\* animate(): the mixer's update, then the procedural layer's, with the
\* callbacks of the gestures in flight due later in the frame
LayerFrame(delta, p, gesture) ==
    /\ layer.made
    /\ nFrame < MaxTicks
    /\ \A i \in 1..Len(layer.gestures) : ~layer.gestures[i].due
    /\ LET c == FrameInput(delta, gesture)
           L == [Posed(layer, p) EXCEPT
                    !.gestures = [i \in 1..Len(@) |-> [@[i] EXCEPT !.due = TRUE]]]
       IN  layer' = layerUpdate(L, c)
    /\ Becomes(setSpeed(St, SpeedMap(mood)))
    /\ lastOp' = [op |-> "frame", n |-> delta]
    /\ nFrame' = nFrame + 1
    /\ UNCHANGED <<nChange, layerRest>>

\* the animation-frame callback of a gesture in flight: animateFlick or
\* animateTwitch
GestureFrame ==
    /\ layer.made
    /\ \E i \in 1..Len(layer.gestures) :
        /\ layer.gestures[i].due
        /\ \A j \in 1..(i - 1) : ~layer.gestures[j].due
        /\ LET g == layer.gestures[i]
               L == Flicked(layer, g, layer.time)
           IN  layer' =
                 [L EXCEPT !.gestures =
                     IF layer.time - g.start < g.ms
                     THEN [@ EXCEPT ![i].due = FALSE]
                     ELSE RemoveAt(@, i)]
    /\ Becomes(St)
    /\ lastOp' = [op |-> "gesture", n |-> 0]
    /\ UNCHANGED <<nFrame, nChange, layerRest>>

\* the state machine enters another state, which sets the mood
LayerStateChange(state) ==
    /\ nChange < MaxChange
    /\ Becomes(changeState(St, state, NoDraw))
    /\ lastOp' = [op |-> "changeState", n |-> 0]
    /\ nChange' = nChange + 1
    /\ UNCHANGED <<layer, nFrame, layerRest>>

InitLayer == Constructed /\ menu = {}

NextLayer ==
    \/ \E r \in PhaseDraws, found \in BoneSets : InitializeLayer(r, found)
    \/ \E delta \in Deltas, p \in Poses, gesture \in GestureDraws :
          LayerFrame(delta, p, gesture)
    \/ GestureFrame
    \/ \E state \in MoodStates : LayerStateChange(state)

SpecLayer == InitLayer /\ [][NextLayer]_vars

\* ------------------------------------------------------------ its claims
Abs(x) == IF x < 0 THEN 0 - x ELSE x
\* how far the tail's current intensity is from the sleepy target, 0.1
FromSleepy(L) == Abs(L.tail.currentIntensity - Tenth)
\* a frame was drawn in the step, in mood sleepy, for a cat with a tail
SleepyFrame ==
    /\ lastOp'.op = "frame"
    /\ mood = "sleepy"
    /\ "tail" \in DOMAIN layer.bones

\* C33 (as claimed): in mood sleepy, after every frame, whatever its length,
\* the tail's current intensity is no farther from 0.1 than before the frame,
\* and if it crossed 0.1 it is beyond it by no more than the frame's
\* interpolation step.
C33_SleepyApproaches ==
    [][SleepyFrame =>
          /\ FromSleepy(layer') <= FromSleepy(layer)
          /\ FromSleepy(layer') <=
                Abs(layer'.tail.currentIntensity
                        - layer.tail.currentIntensity)
             \/ (layer'.tail.currentIntensity >= Tenth)
                    = (layer.tail.currentIntensity >= Tenth)]_vars

\* C33, the state it rules out: after a frame of 2.5 s in mood sleepy the
\* intensity is negative, farther from 0.1 than the constructor's 0.2.
C33_FartherAfterLongFrame ==
    /\ lastOp.op = "frame"
    /\ lastOp.n = 20
    /\ mood = "sleepy"
    /\ layer.tail.currentIntensity < 0
    /\ FromSleepy(layer) > Tenth

\* C33, what the code does guarantee: the distance from 0.1 is multiplied by
\* |1 - delta|, delta in seconds: no farther after a frame of at most 2 s, on
\* the same side of 0.1 after a frame of at most 1 s.
C33_ScaledByOneMinusDelta ==
    [][SleepyFrame =>
          /\ 8 * FromSleepy(layer') = Abs(8 - lastOp'.n) * FromSleepy(layer)
          /\ lastOp'.n <= 16 => FromSleepy(layer') <= FromSleepy(layer)
          /\ lastOp'.n <= 8 =>
                \/ layer'.tail.currentIntensity = Tenth
                \/ (layer'.tail.currentIntensity > Tenth)
                       = (layer.tail.currentIntensity > Tenth)]_vars

\* the layer after a frame of length delta that starts gesture g, drawn from
\* layer L
Ticked(L, delta, g) == layerUpdate(L, FrameInput(delta, g))

\* C32 (as claimed): right after cacheBaselines, a tick with no other
\* mutation in between leaves the rotation of every bone equal to its cached
\* baseline.
C32_TickLeavesBaselines ==
    lastOp.op = "initLayer" =>
        \A delta \in Deltas :
            LET L == Ticked(layer, delta, "none")
            IN  \A k \in DOMAIN L.bones : L.bones[k] = L.boneBaselines[k]

\* C32 (amended): a tick leaves the cache alone and leaves every bone at its
\* cached baseline plus the offsets of that tick alone, whatever the bones
\* held before it: the head at its baseline while the cat is not talking,
\* the ears at theirs unless the mood is curious, the tail's x at its
\* baseline and its y and z at the baseline plus sin(phase) * intensity and
\* cos(0.7 * phase) * intensity / 2 (y at the baseline in the frame that
\* starts a flick).  Restoring the baselines twice is restoring them once.
C32_TickOffsetsFromBaseline ==
    layer.made =>
        /\ resetBaselines(resetBaselines(layer)) = resetBaselines(layer)
        /\ \A k \in DOMAIN layer.bones :
              resetBaselines(layer).bones[k] = layer.boneBaselines[k]
        /\ \A delta \in Deltas, p \in Poses, g \in GestureDraws :
              LET L == Ticked(Posed(layer, p), delta, g)
                  base == layer.boneBaselines
                  bones == L.bones
              IN  /\ L.boneBaselines = base
                  /\ bones = Ticked(layer, delta, g).bones
                  /\ ~isTalking => bones["head"] = base["head"]
                  /\ (mood # "curious" /\ "leftEar" \in DOMAIN bones) =>
                        /\ bones["leftEar"] = base["leftEar"]
                        /\ bones["rightEar"] = base["rightEar"]
                  /\ bones["tail"].x = base["tail"].x
                  /\ bones["tail"].y =
                        IF g = "flick" THEN base["tail"].y
                        ELSE base["tail"].y
                                 + Swing(SinMilli(L.tail.phase),
                                         L.tail.currentIntensity)
                  /\ bones["tail"].z =
                        base["tail"].z
                            + Swing(CosMilli((L.tail.phase * 7) \div 10),
                                    L.tail.currentIntensity) \div 2

\* C32 witness: the first frame right after cacheBaselines, drawn after the
\* mixer posed the bones, has left the head at its baseline and the tail
\* away from its baseline.
C32_Witness ==
    /\ lastOp.op = "frame"
    /\ nFrame = 1
    /\ nChange = 0
    /\ layer.bones["head"] = layer.boneBaselines["head"]
    /\ layer.bones["tail"] # layer.boneBaselines["tail"]
    /\ layer.bones["tail"] # ClipPose["tail"]

====
